---- MODULE Spec2Model ----
(***************************************************************************)
(* TsukiPad: the journal server (Express handlers over journal_data.txt   *)
(* and the uploads/ directory) and the client that addresses entries by   *)
(* their array index.                                                      *)
(*                                                                         *)
(* Every handler is cut at its awaits: a request is started (the code up  *)
(* to the first await), its fs.readFile completes, its fs.rename calls    *)
(* complete one by one in any order, its fs.writeFile completes.  Between *)
(* two awaits a handler runs without interruption (one event-loop turn).  *)
(***************************************************************************)
EXTENDS Integers, Sequences, FiniteSets, TLC

VARIABLES
    journal_data,     \* journal_data.txt: [state, entries]
    uploads,          \* uploads/ directory: generated file name -> stored blob
    clock,            \* Date.now()
    reqs,             \* the HTTP requests being handled, one per connection
    calendarEntries,  \* App state: the entries of the last full fetch, with ids
    app,              \* App: the call of the journal API it is waiting for, its state
    host              \* the machine the code runs on: [tz, lenient]

vars == <<journal_data, uploads, clock, reqs, calendarEntries, app, host>>

\* the client's part of the state
client == <<calendarEntries, app>>

(***************************************************************************)
(* Bounds of the model.                                                    *)
(***************************************************************************)
\* longest persisted collection explored
MaxEntries == 2
\* largest value Date.now() takes
MaxClock == 1
\* longest collection the client's lists are built from
MaxNotes == 3
\* how many months the calendar is moved away from the month it was opened in
MaxMonths == 12
\* longest list of forecast samples in a response
MaxSamples == 3
MaxStream == 7
MaxRequests == 2
MaxSearches == 2

(***************************************************************************)
(* JavaScript values.                                                      *)
(***************************************************************************)
\* the value undefined (a destructured field that the request does not carry)
UNDEF == "<undefined>"

\* {} : the object with no key
NoObject == [k \in {} |-> UNDEF]

\* obj.k : undefined when the object has no such key
Get(o, k) == IF k \in DOMAIN o THEN o[k] ELSE UNDEF

\* JSON.stringify of an entry object: a key whose value is undefined is dropped
JSONstringifyEntry(o) ==
    LET kept == {k \in DOMAIN o : k = "photos" \/ o[k] # UNDEF}
    IN  [k \in kept |-> o[k]]

\* JSON.stringify(entries, null, 2) followed by JSON.parse: the array, entry by entry
JSONstringify(entries) == [i \in 1..Len(entries) |-> JSONstringifyEntry(entries[i])]

\* a || b on strings: undefined and "" are falsy
OrElse(a, b) == IF a = UNDEF \/ a = "" THEN b ELSE a

\* a || b written where a ?? b stands: the empty string gives b too
Nullish_falsy(a, b) == IF a = UNDEF \/ a = "" THEN b ELSE a

\* a ?? b : only undefined (or null) gives b
Nullish(a, b) == IF a = UNDEF THEN b ELSE a

\* parseInt(s, 10) on a string given as its characters: an optional sign, then
\* the longest run of decimal digits; NaN when that run is empty
Digits == <<"0", "1", "2", "3", "4", "5", "6", "7", "8", "9">>

IsDigit(c) == \E d \in 1..10 : Digits[d] = c

DigitVal(c) == (CHOOSE d \in 1..10 : Digits[d] = c) - 1

RECURSIVE DigitRun(_, _)
DigitRun(s, acc) ==
    IF s = <<>> \/ ~IsDigit(Head(s)) THEN acc
    ELSE DigitRun(Tail(s), [n |-> acc.n + 1, val |-> acc.val * 10 + DigitVal(Head(s))])

parseInt(s) ==
    LET neg  == s # <<>> /\ Head(s) = "-"
        rest == IF s # <<>> /\ Head(s) \in {"-", "+"} THEN Tail(s) ELSE s
        run  == DigitRun(rest, [n |-> 0, val |-> 0])
    IN  IF run.n = 0 THEN [nan |-> TRUE, val |-> 0]
        ELSE [nan |-> FALSE, val |-> IF neg THEN 0 - run.val ELSE run.val]

(***************************************************************************)
(* JavaScript Date.  A Date is [nan, t]: Invalid Date, or a time value t  *)
(* counted in hours since 1970-01-01T00:00Z (the zone offsets explored    *)
(* are whole hours).  host.tz is the offset of local time from UTC in     *)
(* hours; host.lenient tells whether the engine's parser rolls a day past *)
(* the end of its month over into the next month (V8) or rejects it.      *)
(***************************************************************************)
InvalidDate == [nan |-> TRUE, t |-> 0]

TimeValue(t) == [nan |-> FALSE, t |-> t]

\* a < b and a >= b on Dates: every comparison with Invalid Date is false
DateLt(a, b) == ~a.nan /\ ~b.nan /\ a.t < b.t

DateGe(a, b) == ~a.nan /\ ~b.nan /\ a.t >= b.t

\* the proleptic Gregorian calendar of the Date object
InLeapYear(y) == (y % 4 = 0 /\ y % 100 # 0) \/ y % 400 = 0

DaysInMonth(y, m) ==
    IF m = 2 THEN (IF InLeapYear(y) THEN 29 ELSE 28)
    ELSE IF m \in {4, 6, 9, 11} THEN 30 ELSE 31

\* the day number (days since 1970-01-01) of year y, month m (1..12), day d
DayFromCivil(y, m, d) ==
    LET yy  == IF m <= 2 THEN y - 1 ELSE y
        era == yy \div 400
        yoe == yy - era * 400
        mp  == IF m > 2 THEN m - 3 ELSE m + 9
        doy == (153 * mp + 2) \div 5 + d - 1
        doe == yoe * 365 + yoe \div 4 - yoe \div 100 + doy
    IN  era * 146097 + doe - 719468

\* year, month (1..12), day of month and day of week (0 = Sunday) of a day number
CivilFromDay(z) ==
    LET zz  == z + 719468
        era == zz \div 146097
        doe == zz - era * 146097
        yoe == (doe - doe \div 1460 + doe \div 36524 - doe \div 146096) \div 365
        doy == doe - (365 * yoe + yoe \div 4 - yoe \div 100)
        mp  == (5 * doy + 2) \div 153
        m   == IF mp < 10 THEN mp + 3 ELSE mp - 9
    IN  [year  |-> yoe + era * 400 + (IF m <= 2 THEN 1 ELSE 0),
         month |-> m,
         date  |-> doy - (153 * mp + 2) \div 5 + 1,
         day   |-> (z + 4) % 7]

\* MakeDay: month index mi counted from 0 and of any size, day d of any size
MakeDay(y, mi, d) == DayFromCivil(y + (mi \div 12), (mi % 12) + 1, 1) + d - 1

\* the local calendar fields of a time value: getFullYear, getMonth() + 1,
\* getDate, getDay, and getHours as hour
LocalFields(t) ==
    LET local == t + host.tz
        c     == CivilFromDay(local \div 24)
    IN  [year |-> c.year, month |-> c.month, date |-> c.date, day |-> c.day,
         hour |-> local % 24]

\* the number written by the characters s[a..b], when they are all digits
AllDigits(s, a, b) == \A i \in a..b : IsDigit(s[i])

Number(s, a, b) == DigitRun(SubSeq(s, a, b), [n |-> 0, val |-> 0]).val

\* new Date(s) for a string given as its characters.  The date-only form
\* YYYY-MM-DD is midnight UTC of that day; a month outside 01..12 or a day
\* outside 01..31 is Invalid Date; a day up to 31 that its month does not
\* have is rolled over or rejected, as the engine does.  Every other string
\* explored is no date at all.
NewDate(s) ==
    IF ~( /\ Len(s) = 10
          /\ s[5] = "-" /\ s[8] = "-"
          /\ AllDigits(s, 1, 4) /\ AllDigits(s, 6, 7) /\ AllDigits(s, 9, 10) )
    THEN InvalidDate
    ELSE LET y == Number(s, 1, 4)
             m == Number(s, 6, 7)
             d == Number(s, 9, 10)
         IN  IF m < 1 \/ m > 12 \/ d < 1 \/ d > 31 THEN InvalidDate
             ELSE IF d > DaysInMonth(y, m) /\ ~host.lenient THEN InvalidDate
             ELSE TimeValue(24 * (DayFromCivil(y, m, 1) + d - 1))

\* d.setHours(0, 0, 0, 0): midnight, local time, of d's local day
SetHoursZero(d) ==
    IF d.nan THEN d
    ELSE TimeValue(((d.t + host.tz) \div 24) * 24 - host.tz)

\* d.setDate(n): day n, of any size, of d's local month, at d's local time of day
SetDate(d, n) ==
    IF d.nan THEN d
    ELSE LET f == LocalFields(d.t)
         IN  TimeValue(24 * MakeDay(f.year, f.month - 1, n) + f.hour - host.tz)

\* d.setMonth(mi): month index mi, of any size, of d's local year, keeping
\* d's day of month (which rolls over when that month is shorter) and time
SetMonth(d, mi) ==
    IF d.nan THEN d
    ELSE LET f == LocalFields(d.t)
         IN  TimeValue(24 * MakeDay(f.year, mi, f.date) + f.hour - host.tz)

\* new Date(year, monthIndex, day): local midnight of that day
NewDateOf(year, mi, day) == TimeValue(24 * MakeDay(year, mi, day) - host.tz)

\* new Date()
Now == TimeValue(clock)

\* pad2(n), String(n).padStart(2, '0'): the two characters of 0 <= n <= 99
pad2(n) == <<Digits[(n \div 10) + 1], Digits[(n % 10) + 1]>>

\* the characters of a year 1000 <= y <= 9999, as `${year}` gives them
YearText(y) == pad2(y \div 100) \o pad2(y % 100)

\* the string `${y}-${mm}-${dd}` from the characters of its parts
YMD(y, mm, dd) == y \o <<"-">> \o mm \o <<"-">> \o dd

(***************************************************************************)
(* The handlers' pure parts.                                               *)
(***************************************************************************)
\* entries[index], index counted from 0; past the end it is undefined, which
\* { ...entry } spreads as no key at all
At(entries, index) ==
    IF 0 <= index /\ index < Len(entries) THEN entries[index + 1] ELSE NoObject

\* the guard with its upper comparison off by one: index > entries.length
InRange_offByOne(index, entries) == ~(index < 0 \/ index > Len(entries))

\* the guard "index < 0 || index >= entries.length" does not fire
InRange(index, entries) == ~(index < 0 \/ index >= Len(entries))

\* { ...entry, ...req.body }: the whole body spread over the entry
MergeUpdate_spreadBody(entry, body) ==
    [k \in DOMAIN entry \cup DOMAIN body |-> IF k \in DOMAIN body THEN body[k] ELSE entry[k]]

\* { ...entry, title: title ?? entry.title, time: ..., text: ... }
MergeUpdate(entry, body) ==
    [k \in DOMAIN entry \cup {"title", "time", "text"} |->
        IF k \in {"title", "time", "text"}
        THEN Nullish(Get(body, k), Get(entry, k))
        ELSE entry[k]]

\* entries[index] = updated; at index = entries.length the array grows by one
SetAt(entries, index, updated) ==
    IF index = Len(entries) THEN Append(entries, updated)
    ELSE IF 0 <= index /\ index < Len(entries)
         THEN [entries EXCEPT ![index + 1] = updated]
         ELSE entries

\* entries.splice(index + 1, 1): the position counted from 1
Splice_fromOne(entries, index) ==
    SubSeq(entries, 1, index + 1) \o SubSeq(entries, index + 3, Len(entries))

\* entries.splice(index, 1)
Splice(entries, index) ==
    SubSeq(entries, 1, index) \o SubSeq(entries, index + 2, Len(entries))

\* `${Date.now()}-${file.originalname}`: the decimal clock value, a dash, the
\* original name; the first dash ends the digits, so the pair determines the string
UniqueFileName(now, originalname) == <<now, originalname>>

\* `/uploads/${uniqueFileName}`
Reference(uniqueFileName) == <<"/uploads/", uniqueFileName>>

\* the entry with time and text taken from each other's argument
NewEntry_swapped(body, photoReferences) ==
    [date   |-> Get(body, "date"),
     title  |-> Get(body, "title"),
     time   |-> Get(body, "text"),
     text   |-> Get(body, "time"),
     color  |-> OrElse(Get(body, "color"), "blue"),
     photos |-> photoReferences]

\* { date, title, time, text, color: color || "blue", photos: photoReferences }
NewEntry(body, photoReferences) ==
    [date   |-> Get(body, "date"),
     title  |-> Get(body, "title"),
     time   |-> Get(body, "time"),
     text   |-> Get(body, "text"),
     color  |-> OrElse(Get(body, "color"), "blue"),
     photos |-> photoReferences]

(***************************************************************************)
(* Requests.  A request record holds the handler's local variables:       *)
(*   kind    "getAll", "post", "put", "delete" ("none": no request yet)    *)
(*   pc      "idle", "reading" (await fs.readFile), "renaming" (await     *)
(*           Promise.all of the fs.rename calls), "writing" (await        *)
(*           fs.writeFile), "done" (the response is sent)                  *)
(*   param   req.params.index, its characters                              *)
(*   index   parseInt(req.params.index, 10)                                *)
(*   body    req.body                                                      *)
(*   files   req.files: [originalname, blob] in upload order               *)
(*   entries the array read from the file, as the handler has changed it;  *)
(*           once answered, the body of the answer to GET /api/journal/all *)
(*   entry   put: entries[index] before the update; delete: the element   *)
(*           splice removed                                                *)
(*   pending the files whose fs.rename has not completed                   *)
(*   now     Date.now() as read for each file's name                       *)
(*   photoReferences  the array the rename callbacks push to               *)
(*   status  the HTTP status of the response (0: none yet)                 *)
(*   json    the entry sent as the body of the answer to a PUT             *)
(***************************************************************************)
IdleReq ==
    [kind |-> "none", pc |-> "idle", param |-> <<>>,
     index |-> [nan |-> TRUE, val |-> 0], body |-> NoObject, files |-> <<>>,
     entries |-> <<>>, entry |-> NoObject, pending |-> {}, now |-> 0,
     photoReferences |-> <<>>, status |-> 0, json |-> NoObject]

\* a connection on which a new request can arrive (no callback of the previous
\* one is still to run)
Free(r) == reqs[r].pc \in {"idle", "done"} /\ reqs[r].pending = {}

\* res.status(code).json(...) : the handler is finished and its array is
\* garbage, except as the body of the answer to GET /api/journal/all and to
\* GET /api/calendar/week
Respond(req, code) ==
    [req EXCEPT !.pc = "done", !.status = code,
                !.entries = IF req.kind \in {"getAll", "week"} /\ code = 200
                            THEN req.entries ELSE <<>>]

\* the longest collection there is, in the file or in a handler that has read it
Longest ==
    LET lens == {Len(journal_data.entries)} \cup
                {Len(reqs[r].entries) : r \in {q \in DOMAIN reqs : reqs[q].pc \in {"renaming", "writing"}}}
    IN  CHOOSE n \in lens : \A m \in lens : m <= n

\* the creates that have not read the file yet: each can add one entry to the
\* longest collection
Growth == Cardinality({r \in DOMAIN reqs : reqs[r].kind = "post" /\ reqs[r].pc = "reading"})

\* startOfWeek in GET /api/calendar/week: midnight of today, moved back by
\* today.getDay() days
startOfWeek ==
    LET today == LocalFields(Now.t)
    IN  SetDate(SetHoursZero(Now), today.date - today.day)

\* endOfWeek: startOfWeek moved on by 7 days
endOfWeek == SetDate(startOfWeek, LocalFields(startOfWeek.t).date + 7)

\* the filter of thisWeek
InThisWeek(entry) ==
    LET entryDate == NewDate(entry.date)
    IN  DateGe(entryDate, startOfWeek) /\ DateLt(entryDate, endOfWeek)

thisWeek(entries) == SelectSeq(entries, InThisWeek)

\* app.get("/api/calendar/week"): up to the await of getAllJournalEntriesFromFile
StartWeek(r) ==
    /\ Free(r)
    /\ reqs' = [reqs EXCEPT ![r] = [IdleReq EXCEPT !.kind = "week", !.pc = "reading"]]
    /\ UNCHANGED <<journal_data, uploads, clock, host>>

\* app.get("/api/journal/all"): up to the await of getAllJournalEntriesFromFile
StartGetAll(r) ==
    /\ Free(r)
    /\ reqs' = [reqs EXCEPT ![r] = [IdleReq EXCEPT !.kind = "getAll", !.pc = "reading"]]
    /\ UNCHANGED <<journal_data, uploads, clock, host>>

\* app.post("/api/journal"): multer has placed the files; up to the await of
\* getAllJournalEntriesFromFile inside createJournalEntryInFile
StartPost(r, body, files) ==
    /\ Free(r)
    /\ Longest + Growth < MaxEntries
    /\ reqs' = [reqs EXCEPT ![r] =
                  [IdleReq EXCEPT !.kind = "post", !.pc = "reading",
                                  !.body = body, !.files = files]]
    /\ UNCHANGED <<journal_data, uploads, clock, host>>

\* app.put("/api/journal/entry/:index"): parseInt, the NaN guard, up to the await
StartPut(r, param, body) ==
    /\ Free(r)
    /\ LET index == parseInt(param)
           req   == [IdleReq EXCEPT !.kind = "put", !.param = param,
                                    !.index = index, !.body = body]
       IN  reqs' = [reqs EXCEPT ![r] =
                      IF index.nan THEN Respond(req, 400)
                      ELSE [req EXCEPT !.pc = "reading"]]
    /\ UNCHANGED <<journal_data, uploads, clock, host>>

\* app.delete("/api/journal/entry/:index"): parseInt, the NaN guard, up to the await
StartDelete(r, param) ==
    /\ Free(r)
    /\ LET index == parseInt(param)
           req   == [IdleReq EXCEPT !.kind = "delete", !.param = param, !.index = index]
       IN  reqs' = [reqs EXCEPT ![r] =
                      IF index.nan THEN Respond(req, 400)
                      ELSE [req EXCEPT !.pc = "reading"]]
    /\ UNCHANGED <<journal_data, uploads, clock, host>>

\* the handler's code from the completion of getAllJournalEntriesFromFile to its
\* next await (or its response), given the array read
AfterRead(req, entries) ==
    CASE req.kind = "getAll" ->
           Respond([req EXCEPT !.entries = entries], 200)
      [] req.kind = "week" ->
           Respond([req EXCEPT !.entries = thisWeek(entries)], 200)
      [] req.kind = "put" ->
           IF ~InRange(req.index.val, entries)
           THEN Respond([req EXCEPT !.entries = entries], 404)
           ELSE LET entry == At(entries, req.index.val)
                IN  [req EXCEPT !.pc = "writing", !.entry = entry,
                         !.entries = SetAt(entries, req.index.val,
                                           MergeUpdate(entry, req.body))]
      [] req.kind = "delete" ->
           IF ~InRange(req.index.val, entries)
           THEN Respond([req EXCEPT !.entries = entries], 404)
           ELSE [req EXCEPT !.pc = "writing",
                     !.entry = At(entries, req.index.val),
                     !.entries = Splice(entries, req.index.val)]
      [] req.kind = "post" ->
           IF req.files = <<>>
           THEN [req EXCEPT !.pc = "writing",
                     !.entries = Append(entries, NewEntry(req.body, <<>>))]
           ELSE [req EXCEPT !.pc = "renaming", !.entries = entries,
                     !.now = clock, !.pending = 1..Len(req.files)]

\* fs.readFile("journal_data.txt") completes and JSON.parse runs: a missing file
\* makes readFile throw, an empty one makes JSON.parse throw; both end in the
\* route's catch (500)
ReadComplete(r) ==
    /\ reqs[r].pc = "reading"
    /\ reqs' = [reqs EXCEPT ![r] =
                  IF journal_data.state = "json"
                  THEN AfterRead(reqs[r], journal_data.entries)
                  ELSE Respond(reqs[r], 500)]
    /\ UNCHANGED <<journal_data, uploads, clock, host, client>>

\* fs.readFile rejects for another reason than a missing file (an I/O error):
\* the route's catch answers 500
ReadFails(r) ==
    /\ reqs[r].pc = "reading"
    /\ reqs' = [reqs EXCEPT ![r] = Respond(reqs[r], 500)]
    /\ UNCHANGED <<journal_data, uploads, clock, host, client>>

\* createJournalEntryInFile after Promise.all has resolved: the entry is built
\* from the references pushed so far and appended; fs.writeFile is awaited
AfterRenames(req) ==
    [req EXCEPT !.pc = "writing",
         !.entries = Append(req.entries, NewEntry(req.body, req.photoReferences))]

\* the callback with the rename inside a try/catch that swallows the failure:
\* the promise of a failed file resolves like the others, without a reference
RenameDone_swallowed(req, i, ok) ==
    LET name   == UniqueFileName(req.now, req.files[i].originalname)
        left   == req.pending \ {i}
        pushed == [req EXCEPT !.pending = left,
                       !.photoReferences =
                           IF ok THEN Append(req.photoReferences, Reference(name))
                           ELSE req.photoReferences]
    IN  IF req.pc = "renaming" /\ left = {} THEN AfterRenames(pushed) ELSE pushed

\* one file's callback in files.map: its fs.rename completes.  On success the
\* blob is at its new name and the reference is pushed; when that was the last
\* file Promise.all resolves.  On failure Promise.all rejects at once and the
\* route answers 500, while the other renames go on.
RenameDone(req, i, ok) ==
    LET name   == UniqueFileName(req.now, req.files[i].originalname)
        left   == req.pending \ {i}
        pushed == [req EXCEPT !.pending = left,
                       !.photoReferences = Append(req.photoReferences, Reference(name))]
    IN  IF ok
        THEN IF req.pc = "renaming" /\ left = {} THEN AfterRenames(pushed) ELSE pushed
        ELSE IF req.pc = "renaming"
             THEN Respond([req EXCEPT !.pending = left], 500)
             ELSE [req EXCEPT !.pending = left]

\* fs.rename(file.path, filePath): a file already at filePath is replaced
Rename(dir, name, blob) ==
    [n \in DOMAIN dir \cup {name} |-> IF n = name THEN blob ELSE dir[n]]

RenameComplete(r, i, ok) ==
    /\ i \in reqs[r].pending
    /\ reqs' = [reqs EXCEPT ![r] = RenameDone(reqs[r], i, ok)]
    /\ uploads' = IF ok
                  THEN Rename(uploads,
                              UniqueFileName(reqs[r].now, reqs[r].files[i].originalname),
                              reqs[r].files[i].blob)
                  ELSE uploads
    /\ UNCHANGED <<journal_data, clock, host, client>>

\* the PUT route answering res.json(entry), the entry as it was read
AfterWrite_oldEntry(req) ==
    IF req.kind = "put"
    THEN [Respond(req, 200) EXCEPT !.json = JSONstringifyEntry(req.entry)]
    ELSE Respond(req, 200)

\* the handler after its fs.writeFile: the PUT route answers
\* res.json(entries[index]), the others { success: true }
AfterWrite(req) ==
    IF req.kind = "put"
    THEN [Respond(req, 200) EXCEPT
            !.json = JSONstringifyEntry(At(req.entries, req.index.val))]
    ELSE Respond(req, 200)

\* the handler with its fs.writeFile left out: it answers as if it had written
WriteComplete_skipped(r, ok) ==
    /\ reqs[r].pc = "writing"
    /\ IF ok
       THEN /\ journal_data' = journal_data
            /\ reqs' = [reqs EXCEPT ![r] = AfterWrite(reqs[r])]
       ELSE /\ journal_data' = journal_data
            /\ reqs' = [reqs EXCEPT ![r] = Respond(reqs[r], 500)]
    /\ UNCHANGED <<uploads, clock, host, client>>

\* fs.writeFile("journal_data.txt", JSON.stringify(entries, null, 2)) completes:
\* the whole file is replaced by the handler's array; a failed write leaves the
\* file as it was and ends in the route's catch (500)
WriteComplete(r, ok) ==
    /\ reqs[r].pc = "writing"
    /\ IF ok
       THEN /\ journal_data' = [state |-> "json", entries |-> JSONstringify(reqs[r].entries)]
            /\ reqs' = [reqs EXCEPT ![r] = AfterWrite(reqs[r])]
       ELSE /\ journal_data' = journal_data
            /\ reqs' = [reqs EXCEPT ![r] = Respond(reqs[r], 500)]
    /\ UNCHANGED <<uploads, clock, host, client>>

\* time passes
Tick ==
    /\ clock < MaxClock
    /\ clock' = clock + 1
    /\ UNCHANGED <<journal_data, uploads, reqs, host, client>>

(***************************************************************************)
(* Inputs.                                                                 *)
(***************************************************************************)
\* the characters of a request's :index for the integer n, -9 <= n <= 9
IndexParam(n) == IF n < 0 THEN <<"-", Digits[1 - n]>> ELSE <<Digits[n + 1]>>

\* every integer index from -1 to one past the longest collection
IntegerParams == {IndexParam(n) : n \in -1..MaxEntries}

\* a form with every field, as the panel sends it
FullForm ==
    [date |-> "2025-06-14", title |-> "A", time |-> "09:00", text |-> "x", color |-> "red"]

\* the form with field k left out
Without(form, k) == [j \in DOMAIN form \ {k} |-> form[j]]

\* the photo files of a request
FileA1 == [originalname |-> "a.png", blob |-> "img1"]
FileA2 == [originalname |-> "a.png", blob |-> "img2"]
FileB  == [originalname |-> "b.png", blob |-> "img3"]

\* PUT bodies: every subset of title, time, text, each supplied field set to v
EditBodies(v) == {[k \in S |-> v] : S \in SUBSET {"title", "time", "text"}}

\* a PUT body that also carries date, color and photos
WithForeignKeys(body) ==
    [k \in DOMAIN body \cup {"date", "color", "photos"} |->
        CASE k = "date"   -> "2025-06-16"
          [] k = "color"  -> "green"
          [] k = "photos" -> <<Reference(UniqueFileName(0, "z.png"))>>
          [] OTHER        -> body[k]]

(***************************************************************************)
(* The server under the requests of a set of connections.                 *)
(***************************************************************************)
\* App at its first render: today is computed once (useMemo with no
\* dependency), currentMonth is useState(() => new Date()), forecast is [];
\* forecastCall is the call of fetchFiveDayForecast: where it stands and the
\* body of the last response that arrived
AppInit ==
    [pc |-> "mount", today |-> SetHoursZero(Now), currentMonth |-> Now,
     forecast |-> <<>>, forecastCall |-> [pc |-> "idle", data |-> NoObject]]

InitFiles ==
    /\ journal_data \in {[state |-> st, entries |-> <<>>] : st \in {"json", "missing", "empty"}}
    /\ uploads = NoObject
    /\ clock = 0
    /\ calendarEntries = <<>>
    /\ host = [tz |-> 0, lenient |-> TRUE]
    /\ app = AppInit

\* the requests that arrive on the connections C
ArriveGetAll(C) == \E r \in C : StartGetAll(r) /\ UNCHANGED client

ArriveWeek(C) == \E r \in C : StartWeek(r) /\ UNCHANGED client

ArrivePost(C, FORMS, FILES) ==
    \E r \in C, body \in FORMS, files \in FILES :
        StartPost(r, body, files) /\ UNCHANGED client

ArrivePut(C, PARAMS, EDITS) ==
    \E r \in C, param \in PARAMS, body \in EDITS :
        StartPut(r, param, body) /\ UNCHANGED client

ArriveDelete(C, PARAMS) ==
    \E r \in C, param \in PARAMS : StartDelete(r, param) /\ UNCHANGED client

\* the file operations that complete
CompleteRead(C) == \E r \in C : ReadComplete(r)

CompleteRename(C) ==
    \E r \in C, i \in 1..2, ok \in BOOLEAN : RenameComplete(r, i, ok)

CompleteWrite(C) == \E r \in C, ok \in BOOLEAN : WriteComplete(r, ok)

(***************************************************************************)
(* SpecCreate: one connection; entries are created from forms that differ *)
(* in color and in the optional fields, with and without a photo, listed  *)
(* and deleted.                                                            *)
(***************************************************************************)
CreateConns == {"c1"}

CreateForms ==
    {FullForm, Without(FullForm, "color"), [FullForm EXCEPT !.color = ""],
     [FullForm EXCEPT !.color = "blue"], [FullForm EXCEPT !.color = "teal"],
     [date |-> "2025-06-15", title |-> "B", text |-> "", color |-> "green"]}

CreateFiles == {<<>>, <<FileA1>>}

InitCreate == InitFiles /\ reqs = [r \in CreateConns |-> IdleReq]

NextCreate ==
    \/ ArriveGetAll(CreateConns)
    \/ ArrivePost(CreateConns, CreateForms, CreateFiles)
    \/ ArriveDelete(CreateConns, IntegerParams)
    \/ CompleteRead(CreateConns)
    \/ CompleteRename(CreateConns)
    \/ CompleteWrite(CreateConns)

SpecCreate == InitCreate /\ [][NextCreate]_vars

(***************************************************************************)
(* SpecEdit: one connection; entries created from the full form with a    *)
(* photo are updated with every edit body and deleted, at every index     *)
(* from -1 to one past the longest collection.                            *)
(***************************************************************************)
EditConns == {"c1"}

EditEdits ==
    EditBodies("Z") \cup {WithForeignKeys([title |-> "Z"]), WithForeignKeys(NoObject)}

InitEdit == InitFiles /\ reqs = [r \in EditConns |-> IdleReq]

NextEdit ==
    \/ ArriveGetAll(EditConns)
    \/ ArrivePost(EditConns, {FullForm}, {<<FileA1>>})
    \/ ArrivePut(EditConns, IntegerParams, EditEdits)
    \/ ArriveDelete(EditConns, IntegerParams)
    \/ CompleteRead(EditConns)
    \/ CompleteRename(EditConns)
    \/ CompleteWrite(EditConns)

SpecEdit == InitEdit /\ [][NextEdit]_vars

(***************************************************************************)
(* SpecUpload: one connection; entries are created with zero to two       *)
(* photos, two of them with the same original name; a rename can fail,    *)
(* renames complete in any order, the clock advances.                      *)
(***************************************************************************)
UploadConns == {"c1"}

UploadFiles == {<<>>, <<FileA1>>, <<FileA1, FileB>>, <<FileA1, FileA2>>}

InitUpload == InitFiles /\ reqs = [r \in UploadConns |-> IdleReq]

NextUpload ==
    \/ ArriveGetAll(UploadConns)
    \/ ArrivePost(UploadConns, {FullForm}, UploadFiles)
    \/ ArriveDelete(UploadConns, IntegerParams)
    \/ CompleteRead(UploadConns)
    \/ CompleteRename(UploadConns)
    \/ CompleteWrite(UploadConns)
    \/ Tick

SpecUpload == InitUpload /\ [][NextUpload]_vars

(***************************************************************************)
(* SpecInput: one connection; creates with and without a title, updates   *)
(* whose fields are the empty string, and updates and deletes whose       *)
(* :index is not the text of an integer.                                  *)
(***************************************************************************)
InputConns == {"c1"}

InputForms == {FullForm, Without(FullForm, "title"), [FullForm EXCEPT !.title = ""]}

\* values of :index that are not the text of an integer
MalformedParams ==
    {<<"1", "a", "b", "c">>, <<"1", ".", "5">>, <<"0", "x">>, <<"a", "b", "c">>}

InputParams == {IndexParam(0), IndexParam(1)} \cup MalformedParams

InputEdits == EditBodies("")

InitInput == InitFiles /\ reqs = [r \in InputConns |-> IdleReq]

NextInput ==
    \/ ArriveGetAll(InputConns)
    \/ ArrivePost(InputConns, InputForms, {<<>>})
    \/ ArrivePut(InputConns, InputParams, InputEdits)
    \/ ArriveDelete(InputConns, InputParams)
    \/ CompleteRead(InputConns)
    \/ CompleteWrite(InputConns)

SpecInput == InitInput /\ [][NextInput]_vars

(***************************************************************************)
(* The client (App and RightPanel): it fetches all entries on mount and   *)
(* after each of its own changes, gives each entry its array index as id, *)
(* and addresses updates and deletes by that id.                           *)
(***************************************************************************)
\* the connection of the client's fetch calls
AppConn == "app"

\* data.map((entry, index) => ({ ...entry, id: index })) counting from 1
WithIds_fromOne(data) ==
    [i \in 1..Len(data) |->
        [k \in DOMAIN data[i] \cup {"id"} |-> IF k = "id" THEN i ELSE data[i][k]]]

\* data.map((entry, index) => ({ ...entry, id: index }))
WithIds(data) ==
    [i \in 1..Len(data) |->
        [k \in DOMAIN data[i] \cup {"id"} |-> IF k = "id" THEN i - 1 ELSE data[i][k]]]

\* the ids the client can select: entries.find(e => e.id === noteId)
SelectableIds == {calendarEntries[i].id : i \in 1..Len(calendarEntries)}

\* entries.find(e => e.id === noteId)
SelectedNote(noteId) ==
    calendarEntries[CHOOSE i \in 1..Len(calendarEntries) : calendarEntries[i].id = noteId]

\* res.ok
Ok(status) == 200 <= status /\ status <= 299

\* calendarEntries.filter(e => { d = new Date(e.date); d.setHours(0,0,0,0); return d < today })
IsMemory(e) == DateLt(SetHoursZero(NewDate(e.date)), app.today)

memories == SelectSeq(calendarEntries, IsMemory)

\* ... return d >= today
IsReminder(e) == DateGe(SetHoursZero(NewDate(e.date)), app.today)

reminders == SelectSeq(calendarEntries, IsReminder)

\* RightPanel's createLabel for the panel's date (<<>>: no date)
createLabel(date) ==
    IF date = <<>> THEN "Add"
    ELSE IF DateLt(SetHoursZero(NewDate(date)), SetHoursZero(Now))
         THEN "Add Memory" ELSE "Add Reminder"

\* useEffect(() => { loadJournalEntries() }, []): the fetch of all entries starts
AppMount ==
    /\ app.pc = "mount"
    /\ StartGetAll(AppConn)
    /\ app' = [app EXCEPT !.pc = "loading"]
    /\ UNCHANGED calendarEntries

\* loadJournalEntries after its fetch: the entries with their ids replace the
\* collection; a failed fetch is logged and changes nothing
AppLoaded ==
    /\ app.pc = "loading"
    /\ reqs[AppConn].pc = "done"
    /\ calendarEntries' = IF Ok(reqs[AppConn].status)
                          THEN WithIds(reqs[AppConn].entries)
                          ELSE calendarEntries
    /\ app' = [app EXCEPT !.pc = "idle"]
    /\ UNCHANGED <<journal_data, uploads, clock, host, reqs>>

\* handleCreate: the form of the day panel is posted
AppCreate(form, files) ==
    /\ app.pc = "idle"
    /\ StartPost(AppConn, form, files)
    /\ app' = [app EXCEPT !.pc = "creating"]
    /\ UNCHANGED calendarEntries

\* the edit form's onSubmit: onUpdateNote(selectedNote.id, { title, time, text })
\* with the form loaded from the selected note and the title typed over
AppUpdate(noteId, title) ==
    /\ app.pc = "idle"
    /\ noteId \in SelectableIds
    /\ LET note == SelectedNote(noteId)
           body == [title |-> title,
                    time  |-> Nullish(Get(note, "time"), ""),
                    text  |-> Nullish(Get(note, "text"), "")]
       IN  StartPut(AppConn, IndexParam(note.id), body)
    /\ app' = [app EXCEPT !.pc = "updating"]
    /\ UNCHANGED calendarEntries

\* the Delete button: onDeleteNote(selectedNote.id)
AppDelete(noteId) ==
    /\ app.pc = "idle"
    /\ noteId \in SelectableIds
    /\ StartDelete(AppConn, IndexParam(SelectedNote(noteId).id))
    /\ app' = [app EXCEPT !.pc = "deleting"]
    /\ UNCHANGED calendarEntries

\* the answer to the client's create, update or delete: on success
\* handleNoteSaved fetches all entries again, on failure the call throws
AppMutated ==
    /\ app.pc \in {"creating", "updating", "deleting"}
    /\ reqs[AppConn].pc = "done"
    /\ IF Ok(reqs[AppConn].status)
       THEN /\ StartGetAll(AppConn)
            /\ app' = [app EXCEPT !.pc = "loading"]
       ELSE /\ app' = [app EXCEPT !.pc = "idle"]
            /\ UNCHANGED <<journal_data, uploads, clock, host, reqs>>
    /\ UNCHANGED calendarEntries

(***************************************************************************)
(* NotesList: the notes of a list grouped by date.                        *)
(***************************************************************************)
\* the collation weight of a character of a date string: "-" sorts before
\* the digits, the digits by value
Weight(c) == IF c = "-" THEN 0 ELSE DigitVal(c) + 1

\* a.localeCompare(b): negative, 0 or positive as a sorts before, with or after b
RECURSIVE localeCompare(_, _)
localeCompare(a, b) ==
    IF a = <<>> /\ b = <<>> THEN 0
    ELSE IF a = <<>> THEN -1
    ELSE IF b = <<>> THEN 1
    ELSE IF Weight(a[1]) < Weight(b[1]) THEN -1
    ELSE IF Weight(a[1]) > Weight(b[1]) THEN 1
    ELSE localeCompare(Tail(a), Tail(b))

\* for (const note of notes) { if (!map[note.date]) map[note.date] = [];
\* map[note.date].push(note) }: the map, and its keys in insertion order
RECURSIVE GroupNotes(_, _, _)
GroupNotes(notes, map, keys) ==
    IF notes = <<>> THEN [map |-> map, keys |-> keys]
    ELSE LET note == Head(notes)
             seen == note.date \in DOMAIN map
             list == IF seen THEN map[note.date] ELSE <<>>
         IN  GroupNotes(Tail(notes),
                        [k \in DOMAIN map \cup {note.date} |->
                            IF k = note.date THEN Append(list, note) ELSE map[k]],
                        IF seen THEN keys ELSE Append(keys, note.date))

\* one element put into a sorted array, after the elements that compare equal
RECURSIVE SortInsert(_, _)
SortInsert(sorted, x) ==
    IF sorted = <<>> THEN <<x>>
    ELSE IF localeCompare(x, Head(sorted)) < 0 THEN <<x>> \o sorted
    ELSE <<Head(sorted)>> \o SortInsert(Tail(sorted), x)

\* keys.sort((a, b) => a.localeCompare(b)): a stable sort
RECURSIVE Sort(_)
Sort(keys) ==
    IF keys = <<>> THEN <<>>
    ELSE SortInsert(Sort(SubSeq(keys, 1, Len(keys) - 1)), keys[Len(keys)])

\* grouped with Object.keys(map) left as it is, not sorted
grouped_unsorted(notes) ==
    LET g == GroupNotes(notes, NoObject, <<>>)
    IN  [map |-> g.map, sortedDates |-> g.keys]

\* grouped: { map, sortedDates }
grouped(notes) ==
    LET g == GroupNotes(notes, NoObject, <<>>)
    IN  [map |-> g.map, sortedDates |-> Sort(g.keys)]

(***************************************************************************)
(* SpecLists: the client is opened at some instant, in some time zone and *)
(* on some engine, on a stored collection of entries with any dates; it   *)
(* fetches the collection and derives its memories and reminders lists.   *)
(***************************************************************************)
\* the dates of the stored entries: yesterday, today and tomorrow of
\* 2025-06-15, a month that does not exist and a day its month does not have
ListDates ==
    {YMD(YearText(2025), pad2(6), pad2(14)), YMD(YearText(2025), pad2(6), pad2(15)),
     YMD(YearText(2025), pad2(6), pad2(16)), YMD(YearText(2025), pad2(13), pad2(1)),
     YMD(YearText(2025), pad2(2), pad2(30))}

\* the instants the client is opened at: 2025-06-15 at 12:00Z and at 02:00Z
ListInstants == {24 * DayFromCivil(2025, 6, 15) + 12, 24 * DayFromCivil(2025, 6, 15) + 2}

\* the offsets of local time from UTC, in hours
Offsets == {-5, 0, 9}

\* the entry createJournalEntryInFile stores for the full form on this date
EntryOn(date) == JSONstringifyEntry(NewEntry([FullForm EXCEPT !.date = date], <<>>))

\* the stored collections of up to MaxNotes entries
StoredCollections ==
    UNION {[1..n -> {EntryOn(date) : date \in ListDates}] : n \in 0..MaxNotes}

InitLists ==
    /\ journal_data \in {[state |-> "json", entries |-> c] : c \in StoredCollections}
    /\ uploads = NoObject
    /\ clock \in ListInstants
    /\ calendarEntries = <<>>
    /\ host \in {[tz |-> z, lenient |-> l] : z \in Offsets, l \in BOOLEAN}
    /\ app = AppInit
    /\ reqs = [r \in {AppConn} |-> IdleReq]

NextLists ==
    \/ AppMount
    \/ CompleteRead({AppConn})
    \/ AppLoaded

SpecLists == InitLists /\ [][NextLists]_vars

(***************************************************************************)
(* SpecWeek: the server runs at some instant in some time zone on a       *)
(* stored collection of entries dated around two weeks; the week and the  *)
(* whole collection are requested.                                         *)
(***************************************************************************)
WeekConns == {"c1"}

\* Saturday 06-14, Sunday 06-15, Saturday 06-21, Sunday 06-22, Sunday 06-29,
\* Saturday 07-05 and Sunday 07-06 of 2025
WeekDates ==
    {YMD(YearText(2025), pad2(6), pad2(dd)) : dd \in {14, 15, 21, 22, 29}}
      \cup {YMD(YearText(2025), pad2(7), pad2(dd)) : dd \in {5, 6}}

\* Sunday 2025-06-15 and Wednesday 2025-07-02, both at 12:00Z
WeekInstants == {24 * DayFromCivil(2025, 6, 15) + 12, 24 * DayFromCivil(2025, 7, 2) + 12}

WeekCollections ==
    UNION {[1..n -> {EntryOn(date) : date \in WeekDates}] : n \in 0..MaxNotes}

InitWeek ==
    /\ journal_data \in {[state |-> "json", entries |-> c] : c \in WeekCollections}
    /\ uploads = NoObject
    /\ clock \in WeekInstants
    /\ calendarEntries = <<>>
    /\ host \in {[tz |-> z, lenient |-> TRUE] : z \in Offsets}
    /\ app = AppInit
    /\ reqs = [r \in WeekConns |-> IdleReq]

NextWeek ==
    \/ ArriveWeek(WeekConns)
    \/ ArriveGetAll(WeekConns)
    \/ CompleteRead(WeekConns)

SpecWeek == InitWeek /\ [][NextWeek]_vars

(***************************************************************************)
(* The month grids (MiniMonth and MonthlyCalendar) of App's currentMonth. *)
(* A blank cell's null day is written 0 and its missing date <<>>.        *)
(***************************************************************************)
\* toYMD with getMonth() in the place of getMonth() + 1
toYMD_monthIndex(d) ==
    LET f == LocalFields(d.t)
    IN  YMD(YearText(f.year), pad2(f.month - 1), pad2(f.date))

\* toYMD(d): `${d.getFullYear()}-${pad2(d.getMonth() + 1)}-${pad2(d.getDate())}`
toYMD(d) ==
    LET f == LocalFields(d.t)
    IN  YMD(YearText(f.year), pad2(f.month), pad2(f.date))

\* formatDate(d) of MonthlyCalendar: the same string, built with padStart
formatDate(d) ==
    LET f == LocalFields(d.t)
    IN  YMD(YearText(f.year), pad2(f.month), pad2(f.date))

\* the cells of MiniMonth for currentMonth
MiniMonthCells(currentMonth) ==
    LET year        == LocalFields(currentMonth.t).year
        month       == LocalFields(currentMonth.t).month - 1
        startDay    == LocalFields(NewDateOf(year, month, 1).t).day
        daysInMonth == LocalFields(NewDateOf(year, month + 1, 0).t).date
    IN  [i \in 1..startDay |-> [day |-> 0, dateStr |-> <<>>]]
          \o [day \in 1..daysInMonth |->
                 [day |-> day, dateStr |-> toYMD(NewDateOf(year, month, day))]]

\* the cells of MonthlyCalendar for currentMonth
MonthlyCalendarCells(currentMonth) ==
    LET year         == LocalFields(currentMonth.t).year
        monthIndex   == LocalFields(currentMonth.t).month - 1
        firstWeekday == LocalFields(NewDateOf(year, monthIndex, 1).t).day
        daysInMonth  == LocalFields(NewDateOf(year, monthIndex + 1, 0).t).date
    IN  [i \in 1..firstWeekday |-> [date |-> <<>>, dayOfMonth |-> 0]]
          \o [day \in 1..daysInMonth |->
                 [date |-> formatDate(NewDateOf(year, monthIndex, day)), dayOfMonth |-> day]]

\* the months between the month shown and the month the client was opened in
MonthsAway ==
    LET c == LocalFields(app.currentMonth.t)
        n == LocalFields(clock)
    IN  (c.year * 12 + c.month) - (n.year * 12 + n.month)

\* goToPrevMonth: d.setMonth(d.getMonth() - 1)
goToPrevMonth ==
    /\ MonthsAway > 0 - MaxMonths
    /\ app' = [app EXCEPT !.currentMonth = SetMonth(@, LocalFields(@.t).month - 2)]
    /\ UNCHANGED <<journal_data, uploads, clock, host, reqs, calendarEntries>>

\* goToNextMonth: d.setMonth(d.getMonth() + 1)
goToNextMonth ==
    /\ MonthsAway < MaxMonths
    /\ app' = [app EXCEPT !.currentMonth = SetMonth(@, LocalFields(@.t).month)]
    /\ UNCHANGED <<journal_data, uploads, clock, host, reqs, calendarEntries>>

(***************************************************************************)
(* SpecMonth: the client is opened at some instant in some time zone and  *)
(* the calendar is moved month by month.                                   *)
(***************************************************************************)
\* 2025-01-31 12:00Z, 2024-03-15 12:00Z and 2025-06-30 23:00Z
MonthInstants ==
    {24 * DayFromCivil(2025, 1, 31) + 12, 24 * DayFromCivil(2024, 3, 15) + 12,
     24 * DayFromCivil(2025, 6, 30) + 23}

InitMonth ==
    /\ journal_data = [state |-> "json", entries |-> <<>>]
    /\ uploads = NoObject
    /\ clock \in MonthInstants
    /\ calendarEntries = <<>>
    /\ host \in {[tz |-> z, lenient |-> l] : z \in Offsets, l \in BOOLEAN}
    /\ app = AppInit
    /\ reqs = [r \in {AppConn} |-> IdleReq]

NextMonth ==
    \/ goToPrevMonth
    \/ goToNextMonth

SpecMonth == InitMonth /\ [][NextMonth]_vars

(***************************************************************************)
(* The forecast: fetchFiveDayForecast and App's loadForecast.             *)
(***************************************************************************)
\* item.dt_txt.split(' ')[0]: the characters before the first space
RECURSIVE BeforeSpace(_)
BeforeSpace(s) ==
    IF s = <<>> \/ Head(s) = " " THEN <<>> ELSE <<Head(s)>> \o BeforeSpace(Tail(s))

\* Math.min and Math.max of two numbers
MathMin(a, b) == IF a < b THEN a ELSE b

MathMax(a, b) == IF a > b THEN a ELSE b

\* the first sample of a date: its temperature is both bounds
FirstSample(date, item) ==
    [date |-> date, tempMin |-> item.main.temp, tempMax |-> item.main.temp,
     weather |-> item.weather[1].main, icon |-> item.weather[1].icon]

\* a later sample that also replaces the day's weather and icon
LaterSample_overwrite(summary, item) ==
    [summary EXCEPT !.tempMin = MathMin(@, item.main.temp),
                    !.tempMax = MathMax(@, item.main.temp),
                    !.weather = item.weather[1].main,
                    !.icon = item.weather[1].icon]

\* a later sample of a date: only the bounds move
LaterSample(summary, item) ==
    [summary EXCEPT !.tempMin = MathMin(@, item.main.temp),
                    !.tempMax = MathMax(@, item.main.temp)]

\* data.list.forEach(...): dailyMap, and its keys in insertion order
RECURSIVE Aggregate(_, _, _)
Aggregate(list, dailyMap, keys) ==
    IF list = <<>> THEN [dailyMap |-> dailyMap, keys |-> keys]
    ELSE LET item == Head(list)
             date == BeforeSpace(item.dt_txt)
             seen == date \in DOMAIN dailyMap
         IN  Aggregate(Tail(list),
                       [k \in DOMAIN dailyMap \cup {date} |->
                           IF k # date THEN dailyMap[k]
                           ELSE IF seen THEN LaterSample(dailyMap[date], item)
                           ELSE FirstSample(date, item)],
                       IF seen THEN keys ELSE Append(keys, date))

\* Object.values(dailyMap).slice(-5): the last five dates instead of the first
DailyForecast_lastFive(data) ==
    IF "list" \notin DOMAIN data THEN <<>>
    ELSE LET a == Aggregate(data.list, NoObject, <<>>)
             n == IF Len(a.keys) < 5 THEN Len(a.keys) ELSE 5
         IN  [i \in 1..n |-> a.dailyMap[a.keys[Len(a.keys) - n + i]]]

\* what fetchFiveDayForecast returns for the parsed body: [] without a list,
\* else Object.values(dailyMap).slice(0, 5)
DailyForecast(data) ==
    IF "list" \notin DOMAIN data THEN <<>>
    ELSE LET a == Aggregate(data.list, NoObject, <<>>)
             n == IF Len(a.keys) < 5 THEN Len(a.keys) ELSE 5
         IN  [i \in 1..n |-> a.dailyMap[a.keys[i]]]

\* loadForecast: fetchFiveDayForecast(city) is called (on mount and when the
\* city changes) and awaits its fetch
loadForecast ==
    /\ app.forecastCall.pc = "idle"
    /\ app' = [app EXCEPT !.forecastCall.pc = "fetching"]
    /\ UNCHANGED <<journal_data, uploads, clock, host, reqs, calendarEntries>>

\* the response arrives: when it is not ok the call throws and loadForecast
\* logs it; else res.json() is awaited
ForecastResponse(ok, data) ==
    /\ app.forecastCall.pc = "fetching"
    /\ app' = IF ok THEN [app EXCEPT !.forecastCall = [pc |-> "parsing", data |-> data]]
              ELSE [app EXCEPT !.forecastCall.pc = "idle"]
    /\ UNCHANGED <<journal_data, uploads, clock, host, reqs, calendarEntries>>

\* the body is parsed and aggregated; setForecast(dailyForecast)
ForecastParsed ==
    /\ app.forecastCall.pc = "parsing"
    /\ app' = [app EXCEPT !.forecastCall.pc = "idle",
                          !.forecast = DailyForecast(app.forecastCall.data)]
    /\ UNCHANGED <<journal_data, uploads, clock, host, reqs, calendarEntries>>

(***************************************************************************)
(* SpecForecast: the client loads the forecast again and again; the       *)
(* responses carry every list of up to MaxSamples samples, or no list.    *)
(***************************************************************************)
\* "YYYY-MM-DD HH:MM:SS" of a sample at 09:00 of the day
DtTxt(dd) ==
    YMD(YearText(2025), pad2(6), pad2(dd))
      \o <<" ", "0", "9", ":", "0", "0", ":", "0", "0">>

\* a sample
Sample(dd, temp, main, icon) ==
    [dt_txt |-> DtTxt(dd), main |-> [temp |-> temp],
     weather |-> <<[main |-> main, icon |-> icon]>>]

\* samples of two days: three temperatures on the first, two on the second,
\* in rain and in clear weather
Samples ==
    {Sample(15, 15, "Clear", "01d"), Sample(15, 18, "Rain", "10d"),
     Sample(15, 22, "Clear", "01d"), Sample(16, 18, "Rain", "10d"),
     Sample(16, 22, "Clear", "01d")}

ForecastBodies ==
    {NoObject} \cup {[list |-> l] : l \in UNION {[1..n -> Samples] : n \in 0..MaxSamples}}

InitForecast ==
    /\ journal_data = [state |-> "json", entries |-> <<>>]
    /\ uploads = NoObject
    /\ clock = 24 * DayFromCivil(2025, 6, 15) + 12
    /\ calendarEntries = <<>>
    /\ host = [tz |-> 0, lenient |-> TRUE]
    /\ app = AppInit
    /\ reqs = [r \in {AppConn} |-> IdleReq]

NextForecast ==
    \/ loadForecast
    \/ \E ok \in BOOLEAN, data \in ForecastBodies : ForecastResponse(ok, data)
    \/ ForecastParsed

SpecForecast == InitForecast /\ [][NextForecast]_vars

(***************************************************************************)
(* SpecStream: the forecast is loaded from sample streams that run over    *)
(* up to MaxStream days, forwards or backwards from a first day, and that  *)
(* may end with one more sample of day 11 or of day 17.                    *)
(***************************************************************************)
\* the day of the i-th sample of a stream over the days 11..17
StreamDay(start, step, i) == 11 + ((start - 11 + 7 * MaxStream + step * (i - 1)) % 7)

\* n samples, one a day, whose temperature is the day of the month
Stream(start, step, n) ==
    [i \in 1..n |-> Sample(StreamDay(start, step, i), StreamDay(start, step, i),
                           "Clear", "01d")]

StreamTails ==
    {<<>>, <<Sample(11, 30, "Rain", "10d")>>, <<Sample(17, 30, "Rain", "10d")>>}

StreamBodies ==
    {[list |-> Stream(start, step, n) \o tail] :
        start \in {11, 14, 17}, step \in {1, -1}, n \in 0..MaxStream,
        tail \in StreamTails}

NextStream ==
    \/ loadForecast
    \/ \E ok \in BOOLEAN, data \in StreamBodies : ForecastResponse(ok, data)
    \/ ForecastParsed

SpecStream == InitForecast /\ [][NextStream]_vars

(***************************************************************************)
(* The right panel.  App holds rightPanelOpen, rightPanelMode, panelDate   *)
(* and panelNoteId; RightPanel holds the two forms, busy and error.  The  *)
(* panel's handlers await the client's one connection: op is the handler  *)
(* that awaits and callId the id it was called with.  typed tells whether *)
(* a field of the edit form was typed into since a note was opened, and   *)
(* sent counts the creates, updates and deletes sent (up to MaxRequests). *)
(***************************************************************************)
\* null (panelDate, error)
Null == "null"

\* panelNoteId === null, and selectedNote?.id of no note
NoId == -1

\* a value in a condition: null, undefined and '' are false
Truthy(v) == v \notin {Null, UNDEF, ""}

\* newTitle.trim() of the titles typed here
Trim(s) == CASE s = " " -> "" [] s = " N" -> "N" [] s = "N " -> "N" [] OTHER -> s

\* useState initial values of App's panel state and of RightPanel
PanelState ==
    [isEditing |-> FALSE, title |-> "", time |-> "", text |-> "",
     busy |-> FALSE, error |-> Null, showCreate |-> FALSE,
     newTitle |-> "", newTime |-> "", newText |-> "", newPhotos |-> <<>>,
     newColor |-> "blue", typed |-> FALSE]

PanelInit ==
    AppInit @@ [op |-> "mount", callId |-> NoId, sent |-> 0, rightPanelOpen |-> FALSE,
                rightPanelMode |-> "day", panelDate |-> Null, panelNoteId |-> NoId,
                panel |-> PanelState]

\* selectedNote?.id for a collection and a noteId
SelectedIdOf(entries, noteId) ==
    IF noteId # NoId /\ \E i \in 1..Len(entries) : entries[i].id = noteId
    THEN noteId ELSE NoId

\* useEffect(..., [selectedNote?.id]) after a render with App state a and the
\* collection entries, dep being selectedNote?.id of the render before
Effect(a, entries, dep) ==
    LET id == SelectedIdOf(entries, a.panelNoteId)
        a1 == [a EXCEPT !.panel.isEditing = FALSE, !.panel.error = Null]
    IN  IF id = dep THEN a
        ELSE IF id = NoId THEN a1
        ELSE LET note == entries[CHOOSE i \in 1..Len(entries) : entries[i].id = id]
             IN  [a1 EXCEPT !.panel.title = Nullish(Get(note, "title"), ""),
                            !.panel.time  = Nullish(Get(note, "time"), ""),
                            !.panel.text  = Nullish(Get(note, "text"), "")]

\* the state after the render that follows a handler, and its effect
Render(a, entries) == Effect(a, entries, SelectedIdOf(calendarEntries, app.panelNoteId))

\* mode === 'day' && showCreate && date: the create form
CreateFormShown ==
    /\ app.rightPanelOpen /\ app.rightPanelMode = "day"
    /\ app.panel.showCreate /\ Truthy(app.panelDate)

\* mode === 'note' && selectedNote: the note's body and the footer buttons
NoteShown ==
    /\ app.rightPanelOpen /\ app.rightPanelMode = "note"
    /\ SelectedIdOf(calendarEntries, app.panelNoteId) # NoId

\* ... && isEditing: the edit form
EditFormShown == NoteShown /\ app.panel.isEditing

\* {error && <div ...>{error}</div>}, which only the edit form contains
ErrorShown == EditFormShown /\ Truthy(app.panel.error)

\* dayEntries: the ids of the entries of the panel's date
DayIds ==
    {calendarEntries[i].id : i \in {j \in 1..Len(calendarEntries) :
                                       Get(calendarEntries[j], "date") = app.panelDate}}

\* a click that only changes the client's state
Click(a) ==
    /\ app' = Render(a, calendarEntries)
    /\ UNCHANGED <<journal_data, uploads, clock, host, reqs, calendarEntries>>

\* openDayPanel(date), from a day cell of a calendar; the open panel's
\* backdrop covers the calendars and the lists
openDayPanel(date) ==
    /\ ~app.rightPanelOpen
    /\ Click([app EXCEPT !.panelDate = date, !.panelNoteId = NoId,
                         !.rightPanelMode = "day", !.rightPanelOpen = TRUE])

\* openNotePanel(noteId), from an entry of a list or of the calendar
openNotePanel(noteId) ==
    /\ ~app.rightPanelOpen
    /\ noteId \in SelectableIds
    /\ Click([app EXCEPT !.panelNoteId = noteId, !.rightPanelMode = "note",
                         !.rightPanelOpen = TRUE, !.panel.typed = FALSE])

\* onSelectNote(e.id), from the day list of the panel
onSelectNote(id) ==
    /\ app.rightPanelOpen /\ app.rightPanelMode = "day"
    /\ id \in DayIds
    /\ Click([app EXCEPT !.panelNoteId = id, !.rightPanelMode = "note",
                         !.panel.typed = FALSE])

\* the Back to day button with an onBackToDay that leaves panelNoteId alone
onBackToDay_keepsId ==
    /\ app.rightPanelOpen /\ app.rightPanelMode # "day"
    /\ SelectedIdOf(calendarEntries, app.panelNoteId) # NoId
    /\ Truthy(Get(SelectedNote(app.panelNoteId), "date"))
    /\ Click([app EXCEPT !.panel.isEditing = FALSE,
                         !.panelDate = SelectedNote(app.panelNoteId).date,
                         !.rightPanelMode = "day"])

\* the Back to day button
onBackToDay ==
    /\ app.rightPanelOpen /\ app.rightPanelMode # "day"
    /\ SelectedIdOf(calendarEntries, app.panelNoteId) # NoId
    /\ Truthy(Get(SelectedNote(app.panelNoteId), "date"))
    /\ Click([app EXCEPT !.panel.isEditing = FALSE,
                         !.panelDate = SelectedNote(app.panelNoteId).date,
                         !.panelNoteId = NoId, !.rightPanelMode = "day"])

\* onClose, from the close button or the backdrop
onClose ==
    /\ app.rightPanelOpen
    /\ Click([app EXCEPT !.rightPanelOpen = FALSE])

\* the header button of the day mode: setShowCreate(v => !v)
toggleCreate ==
    /\ app.rightPanelOpen /\ app.rightPanelMode = "day" /\ Truthy(app.panelDate)
    /\ Click([app EXCEPT !.panel.showCreate = ~@])

\* the Cancel button of the create form
cancelCreate ==
    /\ CreateFormShown /\ ~app.panel.busy
    /\ Click([app EXCEPT !.panel.showCreate = FALSE])

\* setNewTitle(e.target.value)
setNewTitle(v) ==
    /\ CreateFormShown
    /\ Click([app EXCEPT !.panel.newTitle = v])

\* the Edit button
startEdit ==
    /\ NoteShown /\ ~app.panel.isEditing /\ ~app.panel.busy
    /\ Click([app EXCEPT !.panel.isEditing = TRUE])

\* the Cancel Edit button
cancelEdit ==
    /\ EditFormShown /\ ~app.panel.busy
    /\ Click([app EXCEPT !.panel.isEditing = FALSE])

\* setTitle(e.target.value)
setTitle(v) ==
    /\ EditFormShown
    /\ Click([app EXCEPT !.panel.title = v, !.panel.typed = TRUE])

\* handleCreate: without a title only the error is set; else the form is posted
handleCreate ==
    /\ CreateFormShown /\ ~app.panel.busy
    /\ app.pc = "idle"
    /\ IF Trim(app.panel.newTitle) = ""
       THEN Click([app EXCEPT !.panel.error = "Title is required"])
       ELSE /\ app.sent < MaxRequests
            /\ StartPost(AppConn,
                         [date |-> app.panelDate, title |-> Trim(app.panel.newTitle),
                          time |-> app.panel.newTime, text |-> app.panel.newText,
                          color |-> app.panel.newColor],
                         app.panel.newPhotos)
            /\ app' = [app EXCEPT !.pc = "creating", !.op = "create", !.sent = @ + 1,
                                  !.panel.busy = TRUE, !.panel.error = Null]
            /\ UNCHANGED calendarEntries

\* the edit form's onSubmit (the title input is required):
\* onUpdateNote(selectedNote.id, { title, time, text })
submitEdit ==
    /\ EditFormShown /\ ~app.panel.busy
    /\ app.pc = "idle"
    /\ app.panel.title # ""
    /\ app.sent < MaxRequests
    /\ StartPut(AppConn, IndexParam(SelectedNote(app.panelNoteId).id),
                [title |-> app.panel.title, time |-> app.panel.time,
                 text |-> app.panel.text])
    /\ app' = [app EXCEPT !.pc = "updating", !.op = "update", !.sent = @ + 1,
                          !.callId = SelectedNote(app.panelNoteId).id,
                          !.panel.busy = TRUE, !.panel.error = Null]
    /\ UNCHANGED calendarEntries

\* the Delete button, confirmed: onDeleteNote(selectedNote.id)
clickDelete ==
    /\ NoteShown /\ ~app.panel.busy
    /\ app.pc = "idle"
    /\ app.sent < MaxRequests
    /\ StartDelete(AppConn, IndexParam(SelectedNote(app.panelNoteId).id))
    /\ app' = [app EXCEPT !.pc = "deleting", !.op = "delete", !.sent = @ + 1,
                          !.panel.busy = TRUE, !.panel.error = Null]
    /\ UNCHANGED calendarEntries

\* err.message of the error that createJournalEntry, updateJournalEntry or
\* deleteJournalEntry throws
ErrorMessage(op) ==
    CASE op = "create" -> "Failed to create journal entry"
      [] op = "update" -> "Failed to update journal entry"
      [] op = "delete" -> "Failed to delete journal entry"

\* the answer to the create, update or delete: on success handleNoteSaved
\* fetches all entries; on failure the call throws, the handler sets the
\* error and, in finally, busy to false
PanelMutated ==
    /\ app.pc \in {"creating", "updating", "deleting"}
    /\ reqs[AppConn].pc = "done"
    /\ IF Ok(reqs[AppConn].status)
       THEN /\ StartGetAll(AppConn)
            /\ app' = [app EXCEPT !.pc = "loading"]
       ELSE /\ app' = Render([app EXCEPT !.pc = "idle", !.op = "none",
                                         !.panel.error = OrElse(ErrorMessage(app.op), "Failed"),
                                         !.panel.busy = FALSE],
                             calendarEntries)
            /\ UNCHANGED <<journal_data, uploads, clock, host, reqs>>
    /\ UNCHANGED calendarEntries

\* what the handler does after its awaits, on App state a
Continue(a) ==
    CASE a.op = "create" ->
           [a EXCEPT !.panel.newTitle = "", !.panel.newTime = "", !.panel.newText = "",
                     !.panel.newPhotos = <<>>, !.panel.newColor = "blue",
                     !.panel.showCreate = FALSE, !.panel.busy = FALSE]
      [] a.op = "update" ->
           [a EXCEPT !.panelNoteId = a.callId, !.rightPanelMode = "note",
                     !.panel.isEditing = FALSE, !.panel.busy = FALSE]
      [] a.op = "delete" ->
           [a EXCEPT !.rightPanelOpen = FALSE, !.panel.busy = FALSE]
      [] OTHER -> a

\* loadJournalEntries that sets the collection from the body of any answer
PanelLoaded_anyStatus ==
    /\ app.pc = "loading"
    /\ reqs[AppConn].pc = "done"
    /\ calendarEntries' = WithIds(reqs[AppConn].entries)
    /\ app' = Render([Continue(app) EXCEPT !.pc = "idle", !.op = "none"],
                     calendarEntries')
    /\ UNCHANGED <<journal_data, uploads, clock, host, reqs>>

\* loadJournalEntries after its fetch, on mount and in handleNoteSaved, and
\* then the rest of the handler that awaited it
PanelLoaded ==
    /\ app.pc = "loading"
    /\ reqs[AppConn].pc = "done"
    /\ calendarEntries' = IF Ok(reqs[AppConn].status)
                          THEN WithIds(reqs[AppConn].entries)
                          ELSE calendarEntries
    /\ app' = Render([Continue(app) EXCEPT !.pc = "idle", !.op = "none"],
                     calendarEntries')
    /\ UNCHANGED <<journal_data, uploads, clock, host, reqs>>

(***************************************************************************)
(* SpecPanel: the client alone on a store that holds one or two entries;   *)
(* the user opens days and notes, types a title into either form, saves,  *)
(* deletes, cancels and closes; reads and writes of the store may fail.    *)
(***************************************************************************)
PanelDates == {FullForm.date}

EntryA == JSONstringifyEntry(NewEntry(FullForm, <<>>))

EntryB ==
    JSONstringifyEntry(NewEntry([FullForm EXCEPT !.title = "B", !.time = "10:00",
                                                 !.text = "y"], <<>>))

InitPanel ==
    /\ journal_data \in {[state |-> "json", entries |-> c] :
                            c \in {<<EntryA>>, <<EntryA, EntryB>>}}
    /\ uploads = NoObject
    /\ clock = 0
    /\ calendarEntries = <<>>
    /\ host = [tz |-> 0, lenient |-> TRUE]
    /\ app = PanelInit
    /\ reqs = [r \in {AppConn} |-> IdleReq]

NextPanel ==
    \/ AppMount
    \/ PanelLoaded
    \/ \E date \in PanelDates : openDayPanel(date)
    \/ \E noteId \in 0..MaxEntries : openNotePanel(noteId)
    \/ \E id \in 0..MaxEntries : onSelectNote(id)
    \/ onBackToDay
    \/ onClose
    \/ toggleCreate
    \/ cancelCreate
    \/ setNewTitle("N")
    \/ startEdit
    \/ cancelEdit
    \/ setTitle("Z")
    \/ handleCreate
    \/ submitEdit
    \/ clickDelete
    \/ PanelMutated
    \/ CompleteRead({AppConn})
    \/ ReadFails(AppConn)
    \/ CompleteWrite({AppConn})

SpecPanel == InitPanel /\ [][NextPanel]_vars

(***************************************************************************)
(* The city.  App holds city, weather and forecast.  handleSearch sets    *)
(* the city and awaits fetchCurrentWeather; the effect on [city] awaits    *)
(* fetchFiveDayForecast.  calls holds the calls that await their answer;  *)
(* searches counts the searches (at most MaxSearches), lastForecast is    *)
(* the last answer to a forecast call and failed tells whether any call   *)
(* has failed.                                                             *)
(***************************************************************************)
Cities == {"Scarborough", "Paris", "Oslo"}

\* the temperature the weather service reports for a city
CityTemp(city) ==
    CASE city = "Scarborough" -> 15 [] city = "Paris" -> 18 [] OTHER -> 22

\* the body of the answer to /forecast?q=city
CityForecast(city) == [list |-> <<Sample(15, CityTemp(city), "Clear", "01d")>>]

\* the body of the answer to /weather?q=city
CityWeather(city) == [name |-> city, main |-> [temp |-> CityTemp(city)]]

CityInit ==
    AppInit @@ [city |-> "Scarborough", weather |-> NoObject, calls |-> {},
                mounted |-> FALSE, searches |-> 0,
                lastForecast |-> [city |-> "", ok |-> TRUE], failed |-> FALSE]

\* a call that awaits its answer; n tells the calls of one kind and city apart
Call(kind, city, n) == [kind |-> kind, city |-> city, n |-> n]

\* the effect on [city] at the first render: loadForecast() for the first city
mountForecast ==
    /\ ~app.mounted
    /\ app' = [app EXCEPT !.mounted = TRUE,
                          !.calls = @ \cup {Call("forecast", app.city, 0)}]
    /\ UNCHANGED <<journal_data, uploads, clock, host, reqs, calendarEntries>>

\* handleSearch(cityName): setCity, then fetchCurrentWeather is awaited; the
\* effect on [city] runs when the city has changed (and is not empty)
handleSearch(cityName) ==
    /\ app.mounted
    /\ app.searches < MaxSearches
    /\ app' = [app EXCEPT
                 !.city = cityName,
                 !.searches = @ + 1,
                 !.calls = @ \cup {Call("weather", cityName, app.searches + 1)}
                             \cup (IF cityName # app.city /\ cityName # ""
                                   THEN {Call("forecast", cityName, app.searches + 1)}
                                   ELSE {})]
    /\ UNCHANGED <<journal_data, uploads, clock, host, reqs, calendarEntries>>

\* the answer to a fetchCurrentWeather: setWeather(data), or the error is logged
WeatherAnswered(c, ok) ==
    /\ c \in app.calls /\ c.kind = "weather"
    /\ app' = [app EXCEPT !.calls = @ \ {c},
                          !.failed = @ \/ ~ok,
                          !.weather = IF ok THEN CityWeather(c.city) ELSE @]
    /\ UNCHANGED <<journal_data, uploads, clock, host, reqs, calendarEntries>>

\* the answer to a fetchFiveDayForecast: setForecast(dailyForecast), or the
\* error is logged
ForecastAnswered(c, ok) ==
    /\ c \in app.calls /\ c.kind = "forecast"
    /\ app' = [app EXCEPT !.calls = @ \ {c},
                          !.failed = @ \/ ~ok,
                          !.lastForecast = [city |-> c.city, ok |-> ok],
                          !.forecast = IF ok THEN DailyForecast(CityForecast(c.city))
                                       ELSE @]
    /\ UNCHANGED <<journal_data, uploads, clock, host, reqs, calendarEntries>>

(***************************************************************************)
(* SpecCity: up to MaxSearches searches among three cities; the answers   *)
(* arrive in any order and any of them may be a failure.                   *)
(***************************************************************************)
CityCalls ==
    {Call(kind, city, n) : kind \in {"weather", "forecast"}, city \in Cities,
                           n \in 0..MaxSearches}

InitCity ==
    /\ journal_data = [state |-> "json", entries |-> <<>>]
    /\ uploads = NoObject
    /\ clock = 24 * DayFromCivil(2025, 6, 15) + 12
    /\ calendarEntries = <<>>
    /\ host = [tz |-> 0, lenient |-> TRUE]
    /\ app = CityInit
    /\ reqs = [r \in {AppConn} |-> IdleReq]

NextCity ==
    \/ mountForecast
    \/ \E cityName \in Cities : handleSearch(cityName)
    \/ \E c \in CityCalls, ok \in BOOLEAN : WeatherAnswered(c, ok)
    \/ \E c \in CityCalls, ok \in BOOLEAN : ForecastAnswered(c, ok)

SpecCity == InitCity /\ [][NextCity]_vars

(***************************************************************************)
(* Note colors.  lib/noteColors maps a color to its classes and its hex   *)
(* through the NOTE_COLORS table; MonthlyCalendar has a switch of its own. *)
(* Reading a property of undefined throws a TypeError.                     *)
(***************************************************************************)
TypeError == "TypeError"

NOTE_COLORS ==
    [red    |-> [classes |-> "bg-red-100 border-red-200 text-red-900", hex |-> "#ef4444"],
     orange |-> [classes |-> "bg-orange-100 border-orange-200 text-orange-900",
                 hex |-> "#f97316"],
     yellow |-> [classes |-> "bg-yellow-100 border-yellow-200 text-yellow-900",
                 hex |-> "#eab308"],
     green  |-> [classes |-> "bg-green-100 border-green-200 text-green-900",
                 hex |-> "#22c55e"],
     blue   |-> [classes |-> "bg-blue-100 border-blue-200 text-blue-900", hex |-> "#3b82f6"],
     purple |-> [classes |-> "bg-purple-100 border-purple-200 text-purple-900",
                 hex |-> "#a855f7"],
     pink   |-> [classes |-> "bg-pink-100 border-pink-200 text-pink-900", hex |-> "#ec4899"],
     gray   |-> [classes |-> "bg-gray-100 border-gray-200 text-gray-900", hex |-> "#9ca3af"]]

DEFAULT_COLOR == "blue"

\* NOTE_COLORS[color ?? DEFAULT_COLOR] is not undefined
HasConfig(color) == Nullish(color, DEFAULT_COLOR) \in DOMAIN NOTE_COLORS

\* getNoteColorConfig(color), where it is not undefined
getNoteColorConfig(color) == NOTE_COLORS[Nullish(color, DEFAULT_COLOR)]

\* lib/noteColors noteBg(color): getNoteColorConfig(color).classes
noteBg(color) ==
    IF HasConfig(color) THEN getNoteColorConfig(color).classes ELSE TypeError

\* colorToHex(color): getNoteColorConfig(color).hex
colorToHex(color) ==
    IF HasConfig(color) THEN getNoteColorConfig(color).hex ELSE TypeError

\* MonthlyCalendar's noteBg(color): a switch whose default is the blue classes
MonthlyCalendar_noteBg(color) ==
    CASE color = "red"    -> "bg-red-100 border-red-200 text-red-900"
      [] color = "orange" -> "bg-orange-100 border-orange-200 text-orange-900"
      [] color = "yellow" -> "bg-yellow-100 border-yellow-200 text-yellow-900"
      [] color = "green"  -> "bg-green-100 border-green-200 text-green-900"
      [] color = "blue"   -> "bg-blue-100 border-blue-200 text-blue-900"
      [] color = "purple" -> "bg-purple-100 border-purple-200 text-purple-900"
      [] color = "pink"   -> "bg-pink-100 border-pink-200 text-pink-900"
      [] color = "gray"   -> "bg-gray-100 border-gray-200 text-gray-900"
      [] OTHER            -> "bg-blue-100 border-blue-200 text-blue-900"

ColorsInit == AppInit @@ [dayList |-> <<>>, dots |-> <<>>, chips |-> <<>>]

\* the render of the fetched entries: the day list of the panel opened on
\* their date (noteBg and colorToHex of e.color) and the chips of the main
\* calendar (its own noteBg of entry.color ?? 'blue')
renderNotes ==
    /\ app.pc = "idle"
    /\ app' = [app EXCEPT
                 !.pc = "rendered",
                 !.dayList = [i \in 1..Len(calendarEntries) |->
                                 noteBg(Get(calendarEntries[i], "color"))],
                 !.dots = [i \in 1..Len(calendarEntries) |->
                              colorToHex(Get(calendarEntries[i], "color"))],
                 !.chips = [i \in 1..Len(calendarEntries) |->
                               MonthlyCalendar_noteBg(
                                   Nullish(Get(calendarEntries[i], "color"), "blue"))]]
    /\ UNCHANGED <<journal_data, uploads, clock, host, reqs, calendarEntries>>

(***************************************************************************)
(* SpecColors: the store holds up to MaxEntries entries, created with each *)
(* of the eight colors, with the color teal or written without a color;   *)
(* the client fetches and renders them.                                    *)
(***************************************************************************)
StoredColors == DOMAIN NOTE_COLORS \cup {"teal", UNDEF}

EntryOfColor(color) ==
    JSONstringifyEntry([NewEntry(FullForm, <<>>) EXCEPT !.color = color])

ColorCollections ==
    UNION {[1..n -> {EntryOfColor(color) : color \in StoredColors}] : n \in 0..MaxEntries}

InitColors ==
    /\ journal_data \in {[state |-> "json", entries |-> c] : c \in ColorCollections}
    /\ uploads = NoObject
    /\ clock = 0
    /\ calendarEntries = <<>>
    /\ host = [tz |-> 0, lenient |-> TRUE]
    /\ app = ColorsInit
    /\ reqs = [r \in {AppConn} |-> IdleReq]

NextColors ==
    \/ AppMount
    \/ CompleteRead({AppConn})
    \/ AppLoaded
    \/ renderNotes

SpecColors == InitColors /\ [][NextColors]_vars

(***************************************************************************)
(* Spec: the client and one other writer on the same journal_data.txt,    *)
(* their requests interleaved at every await.                              *)
(***************************************************************************)
OtherConns == {"c2"}

FormB == [FullForm EXCEPT !.title = "B"]

Init == InitFiles /\ reqs = [r \in {AppConn} \cup OtherConns |-> IdleReq]

Next ==
    \/ AppMount
    \/ AppLoaded
    \/ AppCreate(FullForm, <<>>)
    \/ \E noteId \in 0..MaxEntries : AppUpdate(noteId, "B")
    \/ \E noteId \in 0..MaxEntries : AppDelete(noteId)
    \/ AppMutated
    \/ ArrivePost(OtherConns, {FormB}, {<<>>})
    \/ ArrivePut(OtherConns, IntegerParams, {[title |-> "B"]})
    \/ ArriveDelete(OtherConns, IntegerParams)
    \/ CompleteRead({AppConn} \cup OtherConns)
    \/ CompleteWrite({AppConn} \cup OtherConns)

Spec == Init /\ [][Next]_vars

(***************************************************************************)
(* Claims.                                                                 *)
(***************************************************************************)
\* type NoteColor
NoteColors == {"red", "orange", "yellow", "green", "blue", "purple", "pink", "gray"}

\* this step is the successful completion of the write of a request of this kind
WriteSucceeds(r, kind) ==
    /\ reqs[r].kind = kind
    /\ reqs[r].pc = "writing"
    /\ reqs'[r].pc = "done"
    /\ reqs'[r].status = 200

\* the references createJournalEntryInFile generates for the files of a request
GeneratedReferences(req) ==
    {Reference(UniqueFileName(req.now, req.files[i].originalname)) : i \in 1..Len(req.files)}

\* a request of this kind has been answered with this status
Answered(r, kind, status) ==
    reqs[r].kind = kind /\ reqs[r].pc = "done" /\ reqs[r].status = status

\* C1: round trip.  When a create succeeds, the persisted collection is the
\* one before the write with one entry more at the end; that entry has the
\* date, title, time and text of the request, its color when that is one of
\* the enumeration, and as photos the references generated for the files;
\* the entries stored before keep their index.  GET /journal/all answers
\* with the persisted collection.
C1_RoundTrip ==
    [][\A r \in DOMAIN reqs :
        /\ WriteSucceeds(r, "post") =>
             LET before == journal_data.entries
                 after  == journal_data'.entries
                 body   == reqs[r].body
                 last   == after[Len(after)]
             IN  /\ Len(after) = Len(before) + 1
                 /\ \A i \in 1..Len(before) : after[i] = before[i]
                 /\ \A k \in {"date", "title", "time", "text"} : Get(last, k) = Get(body, k)
                 /\ Get(body, "color") \in NoteColors => Get(last, "color") = Get(body, "color")
                 /\ Len(last.photos) = Len(reqs[r].files)
                 /\ {last.photos[i] : i \in 1..Len(last.photos)} = GeneratedReferences(reqs[r])
        /\ (reqs[r].kind = "getAll" /\ reqs[r].pc = "reading" /\ reqs'[r].status = 200) =>
             reqs'[r].entries = journal_data.entries
      ]_vars

\* a create with a photo has succeeded on a collection that held an entry
C1_Witness ==
    \E r \in DOMAIN reqs :
        /\ Answered(r, "post", 200)
        /\ reqs[r].files # <<>>
        /\ Len(journal_data.entries) = 2
        /\ journal_data.entries[2].photos # <<>>
        /\ Get(journal_data.entries[2], "title") = Get(reqs[r].body, "title")

\* C2: partial update.  When an update succeeds, the entry at the index has
\* the body's value for each of title, time, text the body carries and its
\* prior value for the others; date, color and photos are as before,
\* whatever the body carries.
C2_PartialUpdate ==
    [][\A r \in DOMAIN reqs :
        WriteSucceeds(r, "put") =>
            LET old  == At(journal_data.entries, reqs[r].index.val)
                new  == At(journal_data'.entries, reqs[r].index.val)
                body == reqs[r].body
            IN  /\ \A k \in {"title", "time", "text"} :
                      Get(new, k) = IF k \in DOMAIN body THEN body[k] ELSE Get(old, k)
                /\ \A k \in {"date", "color"} : Get(new, k) = Get(old, k)
                /\ "photos" \in DOMAIN new
                /\ new.photos = old.photos
      ]_vars

\* an update whose body carries title, date, color and photos has succeeded:
\* the title is the body's, the date is not
C2_Witness ==
    \E r \in DOMAIN reqs :
        /\ Answered(r, "put", 200)
        /\ {"title", "date", "color", "photos"} \subseteq DOMAIN reqs[r].body
        /\ "time" \notin DOMAIN reqs[r].body
        /\ LET e == At(journal_data.entries, reqs[r].index.val)
           IN  /\ e.title = "Z"
               /\ e.time = "09:00"
               /\ e.date # reqs[r].body.date
               /\ e.photos # <<>>

\* C3: positional delete shift.  When a delete of index i succeeds on a
\* collection of length n, the collection has length n - 1, every entry that
\* was at j < i is at j and every entry that was at j > i is at j - 1.
C3_DeleteShift ==
    [][\A r \in DOMAIN reqs :
        WriteSucceeds(r, "delete") =>
            LET i      == reqs[r].index.val
                before == journal_data.entries
                after  == journal_data'.entries
            IN  /\ Len(after) = Len(before) - 1
                /\ \A j \in 0..(Len(before) - 1) :
                      /\ j < i => after[j + 1] = before[j + 1]
                      /\ j > i => after[j] = before[j + 1]
      ]_vars

\* index 0 of a collection of two different entries has been deleted: the
\* entry that was at 1 is at 0
C3_Witness ==
    \E r \in DOMAIN reqs :
        /\ Answered(r, "delete", 200)
        /\ reqs[r].index.val = 0
        /\ Len(journal_data.entries) = 1
        /\ journal_data.entries[1] # reqs[r].entry

\* C4: out-of-range guard.  When the read of an update or a delete completes
\* on a collection of length n and the index is < 0 or >= n, the answer is
\* 404, no write is started and the persisted collection is unchanged.
C4_OutOfRange ==
    [][\A r \in DOMAIN reqs :
        ( /\ reqs[r].kind \in {"put", "delete"}
          /\ reqs[r].pc = "reading"
          /\ reqs'[r].pc # "reading"
          /\ journal_data.state = "json"
          /\ \/ reqs[r].index.val < 0
             \/ reqs[r].index.val >= Len(journal_data.entries) )
        => /\ reqs'[r].pc = "done"
           /\ reqs'[r].status = 404
           /\ journal_data' = journal_data
      ]_vars

\* an update at index = length of a non-empty collection has been answered 404
C4_Witness ==
    \E r \in DOMAIN reqs :
        /\ Answered(r, "put", 404)
        /\ journal_data.entries # <<>>
        /\ reqs[r].index.val = Len(journal_data.entries)

\* C10: every persisted entry has a color of the enumeration.
C10_StoredColorValid ==
    \A i \in 1..Len(journal_data.entries) :
        Get(journal_data.entries[i], "color") \in NoteColors

\* the generated name of file i of a request
NameOf(req, i) == UniqueFileName(req.now, req.files[i].originalname)

\* C7: create is all-or-nothing with respect to attachments.  A rename that
\* fails while the create waits for its files makes the answer 500 and
\* leaves the persisted collection as it is; a create answered 500 never
\* changes the collection afterwards; and when a create's write of the
\* collection completes, every file of the request is stored under its name
\* and has its reference in the new entry.
C7_AllOrNothing ==
    [][\A r \in DOMAIN reqs :
        /\ ( /\ reqs[r].kind = "post"
             /\ reqs[r].pc = "renaming"
             /\ Cardinality(reqs'[r].pending) < Cardinality(reqs[r].pending)
             /\ reqs'[r].photoReferences = reqs[r].photoReferences )
           => /\ reqs'[r].pc = "done"
              /\ reqs'[r].status = 500
              /\ journal_data' = journal_data
        /\ ( /\ Answered(r, "post", 500)
             /\ reqs'[r] = [reqs[r] EXCEPT !.pending = reqs'[r].pending,
                                           !.photoReferences = reqs'[r].photoReferences] )
           => journal_data' = journal_data
        /\ WriteSucceeds(r, "post")
           => /\ reqs[r].pending = {}
              /\ Len(reqs[r].photoReferences) = Len(reqs[r].files)
              /\ \A i \in 1..Len(reqs[r].files) :
                    /\ NameOf(reqs[r], i) \in DOMAIN uploads
                    /\ \E p \in 1..Len(journal_data'.entries[Len(journal_data'.entries)].photos) :
                          journal_data'.entries[Len(journal_data'.entries)].photos[p]
                              = Reference(NameOf(reqs[r], i))
      ]_vars

\* a create with two files has been answered 500 after one file was stored
\* and the other failed; the collection is still empty
C7_Witness ==
    \E r \in DOMAIN reqs :
        /\ Answered(r, "post", 500)
        /\ Len(reqs[r].files) = 2
        /\ reqs[r].pending = {}
        /\ Len(reqs[r].photoReferences) = 1
        /\ journal_data.state = "json"
        /\ journal_data.entries = <<>>
        /\ \E i \in 1..2 : NameOf(reqs[r], i) \in DOMAIN uploads

\* C8: attachment order.  The photos of the entry a create has built and is
\* writing are the references of its files in upload order.
C8_UploadOrder ==
    \A r \in DOMAIN reqs :
        (reqs[r].kind = "post" /\ reqs[r].pc = "writing")
        => LET photos == reqs[r].entries[Len(reqs[r].entries)].photos
           IN  photos = [i \in 1..Len(reqs[r].files) |-> Reference(NameOf(reqs[r], i))]

\* every position of a photo reference in the persisted collection
PhotoPositions ==
    UNION {{<<i, p>> : p \in 1..Len(journal_data.entries[i].photos)} :
              i \in 1..Len(journal_data.entries)}

\* C9: attachment names are unique.  No reference occurs at two positions of
\* the persisted collection, in one photos list or in two.
C9_UniqueNames ==
    \A a \in PhotoPositions, b \in PhotoPositions :
        a # b => journal_data.entries[a[1]].photos[a[2]] # journal_data.entries[b[1]].photos[b[2]]

\* the mutating kinds of request
Mutating == {"post", "put", "delete"}

\* the collection a handler that is about to write had read: its array with
\* its own change undone
Before(req) ==
    CASE req.kind = "post"   -> SubSeq(req.entries, 1, Len(req.entries) - 1)
      [] req.kind = "put"    -> SetAt(req.entries, req.index.val, req.entry)
      [] req.kind = "delete" ->
           SubSeq(req.entries, 1, req.index.val) \o <<req.entry>>
             \o SubSeq(req.entries, req.index.val + 1, Len(req.entries))
      [] OTHER -> req.entries

\* C5: lost update under concurrent writers.  The successful write of a
\* create, update or delete makes the persisted collection exactly the array
\* of that handler, i.e. what it had read with its own change applied,
\* whatever the file holds by then, and it changes no other request: a
\* writer that was answered with success stays so while its change is gone.
C5_LastWriteWins ==
    [][\A r \in DOMAIN reqs :
        (reqs[r].kind \in Mutating /\ WriteSucceeds(r, reqs[r].kind))
        => /\ journal_data'.state = "json"
           /\ journal_data'.entries = JSONstringify(reqs[r].entries)
           /\ Len(journal_data'.entries)
                = Len(Before(reqs[r])) + (CASE reqs[r].kind = "post" -> 1
                                            [] reqs[r].kind = "delete" -> -1
                                            [] OTHER -> 0)
           /\ \A q \in DOMAIN reqs \ {r} : reqs'[q] = reqs[q]
      ]_vars

\* one writer has been answered with success and the file holds its change,
\* while another, which had read the file before that write, is about to
\* write its own array over it
C5_Witness ==
    \E r1 \in DOMAIN reqs, r2 \in DOMAIN reqs :
        /\ r1 # r2
        /\ reqs[r1].kind \in Mutating
        /\ Answered(r1, reqs[r1].kind, 200)
        /\ reqs[r2].kind \in Mutating
        /\ reqs[r2].pc = "writing"
        /\ Before(reqs[r2]) # journal_data.entries
        /\ JSONstringify(reqs[r2].entries) # journal_data.entries

\* the entry the client displays under this id, without the id
Displayed(noteId) ==
    LET note == SelectedNote(noteId)
    IN  [k \in DOMAIN note \ {"id"} |-> note[k]]

\* C6: stale positional id.  The id of each entry the client holds is its
\* array index in the answer to the client's last fetch; the index of an
\* update or delete the client sends is one of these ids; and when the read
\* of such a request completes with the index in range of the persisted
\* collection, the handler goes on to write with the entry now at that index,
\* whatever the client displays there: nothing is rejected for staleness.
C6_StaleId ==
    [][/\ \A i \in 1..Len(calendarEntries') : calendarEntries'[i].id = i - 1
       /\ (app.pc = "loading" /\ app'.pc = "idle" /\ Ok(reqs[AppConn].status))
          => /\ Len(calendarEntries') = Len(reqs[AppConn].entries)
             /\ \A i \in 1..Len(calendarEntries') :
                   \A k \in DOMAIN reqs[AppConn].entries[i] :
                       calendarEntries'[i][k] = reqs[AppConn].entries[i][k]
       /\ (app.pc = "idle" /\ app'.pc \in {"updating", "deleting"})
          => /\ ~reqs'[AppConn].index.nan
             /\ reqs'[AppConn].index.val \in SelectableIds
       /\ ( /\ app.pc \in {"updating", "deleting"}
            /\ reqs[AppConn].pc = "reading"
            /\ reqs'[AppConn].pc # "reading"
            /\ journal_data.state = "json"
            /\ reqs[AppConn].index.val < Len(journal_data.entries) )
          => /\ reqs'[AppConn].pc = "writing"
             /\ reqs'[AppConn].entry = At(journal_data.entries, reqs[AppConn].index.val)
      ]_vars

\* the client displays two different entries and has deleted id 0 with
\* success after the other writer deleted the entry displayed under id 0:
\* the entry the client removed is the one it displays under id 1
C6_Witness ==
    /\ app.pc = "deleting"
    /\ Len(calendarEntries) = 2
    /\ Displayed(0) # Displayed(1)
    /\ Answered(AppConn, "delete", 200)
    /\ reqs[AppConn].index.val = 0
    /\ reqs[AppConn].entry = Displayed(1)
    /\ \E r \in OtherConns :
          /\ Answered(r, "delete", 200)
          /\ reqs[r].index.val = 0
          /\ reqs[r].entry = Displayed(0)

\* the characters are the text of an integer: an optional sign, then digits only
IsIntegerText(s) ==
    LET rest == IF s # <<>> /\ Head(s) \in {"-", "+"} THEN Tail(s) ELSE s
    IN  rest # <<>> /\ \A i \in 1..Len(rest) : IsDigit(rest[i])

\* C11: malformed index is rejected.  An update or delete whose :index is
\* not the text of an integer has been answered 400 as soon as it has
\* arrived (it never reads or writes the collection).
C11_MalformedRejected ==
    \A r \in DOMAIN reqs :
        (reqs[r].kind \in {"put", "delete"} /\ ~IsIntegerText(reqs[r].param))
        => (reqs[r].pc = "done" /\ reqs[r].status = 400)

\* a create's body has no title, or the empty one
TitleMissing(body) == Get(body, "title") \in {UNDEF, ""}

\* C12: missing title is a validation error.  A create without a title
\* never writes the collection, and when it is answered the status is 400.
C12_TitleRequired ==
    [][\A r \in DOMAIN reqs :
        (reqs[r].kind = "post" /\ reqs[r].pc # "done" /\ TitleMissing(reqs[r].body))
        => /\ ~WriteSucceeds(r, "post")
           /\ reqs'[r].pc = "done" => reqs'[r].status = 400
      ]_vars

\* C13: empty or missing storage lists as empty.  When the read of a list
\* request completes on a missing or empty journal_data.txt the answer is
\* 200 with the empty sequence, and a create that reads such a file is not
\* answered with an error.
C13_EmptyStoreListsEmpty ==
    [][\A r \in DOMAIN reqs :
        ( /\ reqs[r].pc = "reading"
          /\ reqs'[r].pc # "reading"
          /\ journal_data.state \in {"missing", "empty"} )
        => /\ reqs[r].kind = "getAll"
              => (reqs'[r].status = 200 /\ reqs'[r].entries = <<>>)
           /\ reqs[r].kind = "post"
              => ~(reqs'[r].pc = "done" /\ reqs'[r].status = 500)
      ]_vars

\* C14: present-but-empty values are applied by update.  When an update
\* succeeds, each of title, time, text that the body carries as the empty
\* string is the empty string in the stored entry, and each that the body
\* does not carry is as it was.
C14_EmptyApplied ==
    [][\A r \in DOMAIN reqs :
        WriteSucceeds(r, "put") =>
            LET old  == At(journal_data.entries, reqs[r].index.val)
                new  == At(journal_data'.entries, reqs[r].index.val)
                body == reqs[r].body
            IN  \A k \in {"title", "time", "text"} :
                    /\ (k \in DOMAIN body /\ body[k] = "") => Get(new, k) = ""
                    /\ k \notin DOMAIN body => Get(new, k) = Get(old, k)
      ]_vars

\* an update that carries only text, as the empty string, has succeeded on an
\* entry whose text was not empty: the text is empty, title and time are not
C14_Witness ==
    \E r \in DOMAIN reqs :
        /\ Answered(r, "put", 200)
        /\ DOMAIN reqs[r].body = {"text"}
        /\ reqs[r].body.text = ""
        /\ Get(reqs[r].entry, "text") = "x"
        /\ LET e == At(journal_data.entries, reqs[r].index.val)
           IN  Get(e, "text") = "" /\ Get(e, "title") = "A" /\ Get(e, "time") = "09:00"

\* the string is YYYY-MM-DD and names a day of the calendar
IsCalendarDate(s) ==
    /\ Len(s) = 10 /\ s[5] = "-" /\ s[8] = "-"
    /\ AllDigits(s, 1, 4) /\ AllDigits(s, 6, 7) /\ AllDigits(s, 9, 10)
    /\ Number(s, 6, 7) \in 1..12
    /\ Number(s, 9, 10) \in 1..DaysInMonth(Number(s, 1, 4), Number(s, 6, 7))

\* year, month and day that a YYYY-MM-DD string names
CalendarDate(s) == <<Number(s, 1, 4), Number(s, 6, 7), Number(s, 9, 10)>>

\* today's calendar date where the client runs
TodayDate == LET f == LocalFields(clock) IN <<f.year, f.month, f.date>>

\* calendar date a is strictly before calendar date b
Earlier(a, b) ==
    \/ a[1] < b[1]
    \/ a[1] = b[1] /\ a[2] < b[2]
    \/ a[1] = b[1] /\ a[2] = b[2] /\ a[3] < b[3]

\* the entry with this id is in the list
Lists(list, id) == \E j \in 1..Len(list) : list[j].id = id

\* C15: memory/reminder classification.  Every fetched entry whose date is
\* a calendar date is a memory exactly when that date is strictly before
\* today's date where the client runs, and a reminder exactly when it is
\* not; the panel's label for such a date says the same.
C15_Classification ==
    \A i \in 1..Len(calendarEntries) :
        LET e == calendarEntries[i]
        IN  IsCalendarDate(e.date) =>
              /\ Lists(memories, e.id) <=> Earlier(CalendarDate(e.date), TodayDate)
              /\ Lists(reminders, e.id) <=> ~Earlier(CalendarDate(e.date), TodayDate)
              /\ createLabel(e.date) = "Add Memory"
                    <=> Earlier(CalendarDate(e.date), TodayDate)

\* C16: memory/reminder is a partition.  Every fetched entry is in exactly
\* one of the two lists, and each list is in storage order.
C16_Partition ==
    /\ \A i \in 1..Len(calendarEntries) :
          Lists(memories, calendarEntries[i].id) # Lists(reminders, calendarEntries[i].id)
    /\ \A j \in 1..(Len(memories) - 1) : memories[j].id < memories[j + 1].id
    /\ \A j \in 1..(Len(reminders) - 1) : reminders[j].id < reminders[j + 1].id

\* the day number of the most recent Sunday (today when today is a Sunday)
\* where the server runs
WeekSunday ==
    LET f == LocalFields(clock)
    IN  DayFromCivil(f.year, f.month, f.date) - f.day

\* the entry's calendar date is one of the seven days from that Sunday on
InWindow(entry) ==
    LET c   == CalendarDate(entry.date)
        day == DayFromCivil(c[1], c[2], c[3])
    IN  WeekSunday <= day /\ day <= WeekSunday + 6

\* C17: weekly window.  The answer to GET /calendar/week is the stored
\* collection, in storage order, restricted to the entries whose calendar
\* date lies from the most recent Sunday to the Saturday after it.
C17_WeeklyWindow ==
    \A r \in DOMAIN reqs :
        Answered(r, "week", 200) => reqs[r].entries = SelectSeq(journal_data.entries, InWindow)

\* the day of week (0 = Sunday) of a calendar date, by the table method
WeekdayOf(y, m, d) ==
    LET table == <<0, 3, 2, 5, 0, 3, 5, 1, 4, 6, 2, 4>>
        yy    == IF m < 3 THEN y - 1 ELSE y
    IN  (yy + (yy \div 4) - (yy \div 100) + (yy \div 400) + table[m] + d) % 7

\* the year and the month (1..12) the calendar shows
ShownYear == LocalFields(app.currentMonth.t).year

ShownMonth == LocalFields(app.currentMonth.t).month

CodeUnit(c) == IF c = "-" THEN 45 ELSE 48 + DigitVal(c)

\* string a is before string b in lexicographic order of their code units
LexLess(a, b) ==
    \E i \in 1..(Len(a) + 1) :
        /\ i <= Len(b)
        /\ \A j \in 1..(i - 1) : a[j] = b[j]
        /\ i = Len(a) + 1 \/ CodeUnit(a[i]) < CodeUnit(b[i])

\* the grouping of these notes lists each date once, in ascending order, and
\* under each date the notes of that date in the order of the input
WellGrouped(notes) ==
    LET g == grouped(notes)
    IN  /\ \A i \in 1..(Len(g.sortedDates) - 1) :
              LexLess(g.sortedDates[i], g.sortedDates[i + 1])
        /\ {g.sortedDates[i] : i \in 1..Len(g.sortedDates)}
              = {notes[j].date : j \in 1..Len(notes)}
        /\ DOMAIN g.map = {notes[j].date : j \in 1..Len(notes)}
        /\ \A date \in DOMAIN g.map :
              LET OnDate(note) == note.date = date
              IN  g.map[date] = SelectSeq(notes, OnDate)

\* C19: grouped note list.  The grouping of the memories and of the
\* reminders lists each distinct date exactly once in strictly ascending
\* lexicographic order, and under each date exactly the notes of that date,
\* in their order in the list.
C19_Grouped == WellGrouped(memories) /\ WellGrouped(reminders)

\* three reminders have been fetched, the first and the last on a date after
\* the second's: the dates are listed in the other order and the later
\* date's group holds the first and the last note
C19_Witness ==
    /\ Len(reminders) = 3
    /\ reminders[1].date = reminders[3].date
    /\ LexLess(reminders[2].date, reminders[1].date)
    /\ LET g == grouped(reminders)
       IN  /\ g.sortedDates = <<reminders[2].date, reminders[1].date>>
           /\ g.map[reminders[1].date] = <<reminders[1], reminders[3]>>

\* the positions in a list of samples of the samples of a date
SamplesOf(list, date) == {i \in 1..Len(list) : BeforeSpace(list[i].dt_txt) = date}

\* C20: forecast aggregation.  Once a response with a list has been parsed,
\* the forecast holds one summary for each date of the list (up to five);
\* its tempMin is the least and its tempMax the greatest temperature of the
\* samples of that date, and its weather and icon are those of the first
\* sample of that date.
C20_ForecastAggregation ==
    (app.forecastCall.pc # "parsing" /\ "list" \in DOMAIN app.forecastCall.data)
    => LET list  == app.forecastCall.data.list
           dates == {BeforeSpace(list[i].dt_txt) : i \in 1..Len(list)}
       IN  /\ Cardinality(dates) <= 5
              => /\ Len(app.forecast) = Cardinality(dates)
                 /\ {app.forecast[i].date : i \in 1..Len(app.forecast)} = dates
           /\ \A k \in 1..Len(app.forecast) :
                 LET day   == app.forecast[k]
                     of    == SamplesOf(list, day.date)
                     first == CHOOSE i \in of : \A j \in of : i <= j
                 IN  /\ of # {}
                     /\ \A i \in of : day.tempMin <= list[i].main.temp
                     /\ \E i \in of : day.tempMin = list[i].main.temp
                     /\ \A i \in of : day.tempMax >= list[i].main.temp
                     /\ \E i \in of : day.tempMax = list[i].main.temp
                     /\ day.weather = list[first].weather[1].main
                     /\ day.icon = list[first].weather[1].icon

\* the samples 18, 22, 15 of one date, the first of them rain and the others
\* clear, have been aggregated: tempMin 15, tempMax 22, rain
C20_Witness ==
    /\ app.forecastCall.pc = "idle"
    /\ "list" \in DOMAIN app.forecastCall.data
    /\ LET list == app.forecastCall.data.list
       IN  /\ Len(list) = 3
           /\ <<list[1].main.temp, list[2].main.temp, list[3].main.temp>> = <<18, 22, 15>>
           /\ list[1].dt_txt = list[2].dt_txt /\ list[2].dt_txt = list[3].dt_txt
           /\ list[1].weather[1].main = "Rain"
           /\ list[2].weather[1].main = "Clear"
           /\ list[3].weather[1].main = "Clear"
    /\ Len(app.forecast) = 1
    /\ app.forecast[1].tempMin = 15
    /\ app.forecast[1].tempMax = 22
    /\ app.forecast[1].weather = "Rain"
    /\ app.forecast[1].icon = "10d"

\* the positions in a list of samples at which a date occurs for the first time
FirstOccurrences(list) ==
    {i \in 1..Len(list) :
        \A j \in 1..(i - 1) : BeforeSpace(list[j].dt_txt) # BeforeSpace(list[i].dt_txt)}

\* the k-th smallest member of a set of positions
Kth(S, k) == CHOOSE i \in S : Cardinality({j \in S : j <= i}) = k

\* C21: forecast output bound and order.  Once a response with a list has
\* been parsed, the forecast holds at most 5 summaries with distinct dates:
\* the k-th summary is that of the k-th date in the order in which the dates
\* first occur in the list, for the first five of them, and the forecast is
\* what the list without the samples of every later date gives.
C21_FirstFiveDates ==
    (app.forecastCall.pc # "parsing" /\ "list" \in DOMAIN app.forecastCall.data)
    => LET list   == app.forecastCall.data.list
           firsts == FirstOccurrences(list)
           n      == IF Cardinality(firsts) < 5 THEN Cardinality(firsts) ELSE 5
           kept   == {BeforeSpace(list[Kth(firsts, k)].dt_txt) : k \in 1..n}
           IsKept(item) == BeforeSpace(item.dt_txt) \in kept
       IN  /\ Len(app.forecast) = n
           /\ \A k \in 1..n :
                 app.forecast[k].date = BeforeSpace(list[Kth(firsts, k)].dt_txt)
           /\ \A k, l \in 1..n :
                 app.forecast[k].date = app.forecast[l].date => k = l
           /\ app.forecast = DailyForecast([list |-> SelectSeq(list, IsKept)])

\* a stream that runs backwards over seven days from day 14 and ends with a
\* sample of day 17, its sixth date, has been aggregated: five summaries, of
\* the days 14, 13, 12, 11, 17 in that order, day 17 with both samples
C21_Witness ==
    /\ app.forecastCall.pc = "idle"
    /\ "list" \in DOMAIN app.forecastCall.data
    /\ Len(app.forecastCall.data.list) = 8
    /\ Cardinality(FirstOccurrences(app.forecastCall.data.list)) = 7
    /\ Len(app.forecast) = 5
    /\ app.forecast[1].date = YMD(YearText(2025), pad2(6), pad2(14))
    /\ app.forecast[4].date = YMD(YearText(2025), pad2(6), pad2(11))
    /\ app.forecast[5].date = YMD(YearText(2025), pad2(6), pad2(17))
    /\ app.forecast[5].tempMax = 30

\* a step in which the answer to the panel's create, update or delete is a
\* failure, taken while the view the user acted in is still shown
FailedInView ==
    /\ reqs[AppConn].pc = "done" /\ ~Ok(reqs[AppConn].status)
    /\ app'.pc = "idle"
    /\ \/ app.pc = "creating" /\ CreateFormShown
       \/ app.pc = "updating" /\ EditFormShown
       \/ app.pc = "deleting" /\ NoteShown

\* the values of the two forms
FormValues ==
    <<app.panel.newTitle, app.panel.newTime, app.panel.newText, app.panel.newColor,
      app.panel.newPhotos, app.panel.title, app.panel.time, app.panel.text>>

\* C22: a failed mutation keeps the form and shows the error.  When the
\* create, update or delete of the panel fails, the panel stays on the same
\* view with the values of its forms unchanged, busy is false again, and an
\* error message is set and is displayed in the panel.
C22_FailureShown ==
    [][FailedInView
       => /\ FormValues' = FormValues
          /\ app'.rightPanelOpen /\ app'.rightPanelMode = app.rightPanelMode
          /\ app'.panel.showCreate = app.panel.showCreate
          /\ app'.panel.isEditing = app.panel.isEditing
          /\ ~app'.panel.busy
          /\ Truthy(app'.panel.error)
          /\ ErrorShown']_vars

\* the answer to the panel's create, update or delete has arrived
MutationAnswered ==
    /\ app.pc \in {"creating", "updating", "deleting"}
    /\ reqs[AppConn].pc = "done"

\* the answer to the client's fetch of all entries has arrived
FetchAnswered ==
    /\ app.pc = "loading"
    /\ reqs[AppConn].pc = "done" /\ reqs[AppConn].kind = "getAll"

\* C23: refetch after every mutation, no optimistic update.  The client's
\* collection changes only when a fetch of all entries is answered with
\* success, and then to the entries of the answer, in their order, each with
\* its index as id; a successful create, update or delete of the panel starts
\* that fetch while its handler is still busy, and a handler finishes only on
\* a failed mutation or on the answer to its fetch.
C23_RefetchOnly ==
    [][/\ calendarEntries' # calendarEntries
          => /\ FetchAnswered /\ Ok(reqs[AppConn].status)
             /\ Len(calendarEntries') = Len(reqs[AppConn].entries)
             /\ \A i \in 1..Len(calendarEntries') :
                   /\ calendarEntries'[i].id = i - 1
                   /\ \A k \in DOMAIN reqs[AppConn].entries[i] :
                         calendarEntries'[i][k] = reqs[AppConn].entries[i][k]
       /\ (MutationAnswered /\ Ok(reqs[AppConn].status) /\ app'.pc # app.pc)
          => /\ reqs'[AppConn].kind = "getAll" /\ reqs'[AppConn].pc = "reading"
             /\ app'.pc = "loading" /\ app'.panel.busy
       /\ (app.panel.busy /\ ~app'.panel.busy)
          => \/ MutationAnswered /\ ~Ok(reqs[AppConn].status)
             \/ FetchAnswered]_vars

\* the title of entry 0 was updated to Z and fetched; then entry 1 was deleted
\* on the server but the fetch that followed failed, so that the client still
\* holds both entries
C23_Witness ==
    /\ app.pc = "idle" /\ ~app.panel.busy
    /\ reqs[AppConn].kind = "getAll" /\ reqs[AppConn].status = 500
    /\ Len(journal_data.entries) = 1
    /\ Len(calendarEntries) = 2
    /\ calendarEntries[1].title = "Z"
    /\ ~app.rightPanelOpen

\* C25: the edit form matches the selected note.  Whenever the panel shows
\* the edit form of a selected note and nothing was typed since the note was
\* opened, the form's title, time and text are those of the selected entry
\* (the empty string standing for a missing one).
C25_FormMatchesNote ==
    (EditFormShown /\ ~app.panel.typed)
    => LET note == SelectedNote(app.panelNoteId)
       IN  /\ app.panel.title = Nullish(Get(note, "title"), "")
           /\ app.panel.time = Nullish(Get(note, "time"), "")
           /\ app.panel.text = Nullish(Get(note, "text"), "")

\* C29: panel mode and selected id agree.  In every state of the client the
\* panel's mode is 'note' exactly when panelNoteId is not null.
C29_ModeAndId ==
    (app.rightPanelMode = "note") <=> (app.panelNoteId # NoId)

\* two requests of the panel were answered, the second the delete of note 1,
\* which closed the panel: the mode is still 'note' and panelNoteId still 1
C29_Witness ==
    /\ app.pc = "idle" /\ app.sent = 2 /\ ~app.panel.busy
    /\ ~app.rightPanelOpen
    /\ app.rightPanelMode = "note" /\ app.panelNoteId = 1
    /\ Len(calendarEntries) = 1
    /\ Len(journal_data.entries) = 1

\* C24: a forecast failure shows no weather.  When the last answer to a
\* forecast call was a failure and that call was for the selected city, the
\* client holds no forecast summaries.
C24_FailureShowsNothing ==
    (~app.lastForecast.ok /\ app.lastForecast.city = app.city)
    => app.forecast = <<>>

\* C26: the displayed forecast belongs to the selected city.  Once every
\* call has been answered, all of them with success, the forecast is the one
\* of the selected city, and after a search so is the current weather.
C26_ForecastOfCity ==
    (app.mounted /\ app.calls = {} /\ ~app.failed)
    => /\ app.forecast = DailyForecast(CityForecast(app.city))
       /\ app.searches > 0 => app.weather = CityWeather(app.city)

\* the months from year 0 to the month shown
MonthNumber == ShownYear * 12 + ShownMonth - 1

\* C27: month navigation steps by exactly one month.  goToNextMonth (the
\* step that moves currentMonth forwards) shows the month that follows the
\* month shown, and goToPrevMonth (the step that moves it backwards) the month
\* before it, so that no month is skipped and each undoes the other.
C27_OneMonthSteps ==
    [][/\ app'.currentMonth.t > app.currentMonth.t => MonthNumber' = MonthNumber + 1
       /\ app'.currentMonth.t < app.currentMonth.t => MonthNumber' = MonthNumber - 1]_vars

\* C28: an update touches only the addressed entry.  When the write of an
\* update of index i succeeds, the stored collection has the length it had,
\* every entry at another index is the same entry at the same index, and the
\* entry sent in the answer is the entry stored at index i.
C28_UpdateFrame ==
    [][\A r \in DOMAIN reqs :
        WriteSucceeds(r, "put") =>
            LET i == reqs[r].index.val
            IN  /\ Len(journal_data'.entries) = Len(journal_data.entries)
                /\ \A j \in 0..(Len(journal_data.entries) - 1) :
                      j # i => At(journal_data'.entries, j) = At(journal_data.entries, j)
                /\ reqs'[r].json = At(journal_data'.entries, i)
      ]_vars

\* the update of index 1 of two entries to the title Z was answered with the
\* stored entry; the entry at index 0 still has the title A
C28_Witness ==
    \E r \in DOMAIN reqs :
        /\ Answered(r, "put", 200)
        /\ reqs[r].index.val = 1
        /\ Len(journal_data.entries) = 2
        /\ journal_data.entries[1].title = "A"
        /\ journal_data.entries[2].title = "Z"
        /\ reqs[r].json = journal_data.entries[2]

\* C30: the two color mappings agree and are total.  For every fetched
\* entry that has been rendered, noteBg and colorToHex of lib/noteColors give
\* a result without failing, and noteBg gives the classes that
\* MonthlyCalendar's noteBg gives, the blue classes for an absent or
\* unknown color.
C30_ColorsTotal ==
    app.pc = "rendered"
    => \A i \in 1..Len(calendarEntries) :
          /\ app.dayList[i] # TypeError
          /\ app.dots[i] # TypeError
          /\ app.dayList[i] = app.chips[i]
          /\ Get(calendarEntries[i], "color") \notin DOMAIN NOTE_COLORS
             => app.dayList[i] = NOTE_COLORS.blue.classes

====
